---- MODULE Spec2Model ----
(***************************************************************************)
(* Model of the Manager class of src/src/main/Manager.ts: the staged       *)
(* configuration pipeline (internalManage), the single-flight gate with    *)
(* one queued call (manage), the retry timer and crash recovery.           *)
(*                                                                         *)
(* The program runs on one JavaScript thread.  A handler runs without      *)
(* interruption until it reaches an await.  An await of a promise that is  *)
(* already settled (or settles without I/O) only yields to the microtask   *)
(* queue: its continuation runs before any new event (IPC message, timer,  *)
(* engine signal, I/O completion) is delivered.  An await of real I/O      *)
(* lets any number of events in.  Every action below is one such           *)
(* uninterrupted segment.                                                  *)
(***************************************************************************)
EXTENDS Integers, Sequences, FiniteSets, TLC

VARIABLES
  cfg,            \* ConfigService: configuration key -> stored value
  stages,         \* Manager.stages: stage index -> [valid, current]
  active,         \* Manager.active
  queued,         \* Manager.queued
  configValid,    \* Manager.configValid
  configMessage,  \* Manager.configMessage
  reconfiguring,  \* Manager.reconfiguring
  retryPending,   \* the timer Manager.retryTimer refers to has not fired nor been cleared
  retryTime,      \* the delay that timer was scheduled with, 0 when it is not pending
  orphanTimers,   \* pending retry timers Manager.retryTimer no longer refers to
  obsState,       \* Recorder.obsState of the current Recorder
  handlers,       \* retailLogHandler / classicLogHandler / eraLogHandler
  published,      \* last 'updateRecStatus' message sent to the window
  procs,          \* the manage() invocations that passed the gate and have not returned
  crashes,        \* number of 'crash' events delivered so far
  changes,        \* number of configuration changes made so far
  cloudClient,    \* Manager.cloudClient is defined
  owed,           \* history: "changed" when the configuration changed after the last pass began,
                  \* "called" when manage() was called after that change, "none" once a pass begins
  recovering,     \* history: the invocation recoverRecorderFromCrash started, 0 once it returned
  now,            \* milliseconds elapsed since the remote auth check was started
  remote,         \* what the cloud service does with the auth check
  deadline,       \* the time the promise bomb is due, -1 when none is armed
  restart,        \* restartRecorder(): the engine call it awaits, "idle" when it is not running
  wow,            \* onWowStarted() / onWowStopped(): the call it awaits, "idle" when not running
  force,          \* forceStop(): the source it awaits and the sources it has told so far
  cloudOp,        \* deleteVideoCloud / protectVideoCloud / tagVideoCloud: the call in flight
  calls,          \* history: the calls the last configureFlavour(config) made, in order
  obsMicState,    \* Recorder.obsMicState
  micPublished,   \* the 'updateMicStatus' message the last refreshStatus() sent, "NotSent" if none
  poller,         \* Poller: [started, isWowRunning]
  audioSources,   \* the audio snapshot the Recorder's audio sources were configured from,
                  \* NoConfig when it has none
  wowEvent,       \* history: the last of onWowStarted() / onWowStopped() that was called
                  \* ("start", "stop") and, once it returned, how ("started", "stopped",
                  \* "rejected"); "none" before the first call
  videoQueue      \* VideoProcessQueue: the requests handed to it, in order

vars == <<cfg, stages, active, queued, configValid, configMessage, reconfiguring,
          retryPending, retryTime, orphanTimers, obsState, handlers, published, procs,
          crashes, changes, cloudClient, owed, recovering, now, remote, deadline,
          restart, wow, force, cloudOp, calls, obsMicState, micPublished,
          poller, audioSources, wowEvent, videoQueue>>

\* What the pipeline neither reads nor writes
otherVars == <<restart, wow, force, cloudOp, obsMicState>>

\* The remote auth check of validateCloudBaseConfig, followed step by step
cloudVars == <<now, remote, deadline>>

\* The process watcher, the audio sources of the engine and the video process queue
pollVars == <<poller, audioSources, wowEvent, videoQueue>>

-----------------------------------------------------------------------------
(* Bounds of the model *)

MaxCrashes == 1
MaxChanges == 1
MaxOrphans == 1

(* Program constants *)

NumStages == 5
RetryDelay == 10000
AuthTimeout == 10000

StageNames == <<"obsBase", "obsVideo", "obsAudio", "flavour", "overlay">>
StageIds == 1..NumStages

\* One slot per manage() invocation that can be suspended at the same time:
\* the gate admits one, and each crash recovery resets the gate and admits one more.
Procs == 1..(MaxCrashes + 1)

Flavours == {"retail", "classic", "era"}

-----------------------------------------------------------------------------
(* Configuration store and the per-stage snapshots taken from it *)

ConfigDomain ==
  [ storagePath         |-> {"", "D:/wr"},
    cloudStorage        |-> BOOLEAN,
    obsWindowName       |-> {"", "WoW"},
    speakerVolume       |-> {0, 1},
    recordRetail        |-> BOOLEAN,
    chatOverlayOwnImage |-> BOOLEAN ]

ConfigKeys == DOMAIN ConfigDomain

getObsBaseConfig(c) ==
  [ storagePath          |-> c.storagePath,
    cloudStorage         |-> c.cloudStorage,
    cloudAccountName     |-> c.cloudAccountName,
    cloudAccountPassword |-> c.cloudAccountPassword,
    cloudGuildName       |-> c.cloudGuildName,
    cloudUpload          |-> c.cloudUpload ]

getObsVideoConfig(c) ==
  [ obsCaptureMode |-> "window_capture", obsWindowName |-> c.obsWindowName ]

getObsAudioConfig(c) ==
  [ speakerVolume |-> c.speakerVolume ]

getFlavourConfig(c) ==
  [ recordRetail |-> c.recordRetail, recordClassic |-> TRUE, recordEra |-> FALSE ]

getOverlayConfig(c) ==
  [ chatOverlayOwnImage     |-> c.chatOverlayOwnImage,
    chatOverlayOwnImagePath |-> "overlay.png",
    cloudStorage            |-> c.cloudStorage ]

\* stage.get(this.cfg)
StageGet(i, c) ==
  CASE i = 1 -> getObsBaseConfig(c)
    [] i = 2 -> getObsVideoConfig(c)
    [] i = 3 -> getObsAudioConfig(c)
    [] i = 4 -> getFlavourConfig(c)
    [] i = 5 -> getOverlayConfig(c)

\* lodash isEqual: comparison by value
isEqual(a, b) == a = b

NoConfig == [ none |-> TRUE ]

-----------------------------------------------------------------------------
(* Errors and validation *)

Ok == [ ok |-> TRUE, name |-> "", message |-> "", retryable |-> FALSE, time |-> 0 ]

PlainError(m) ==
  [ ok |-> FALSE, name |-> "Error", message |-> m, retryable |-> FALSE, time |-> 0 ]

AuthError(m) ==
  [ ok |-> FALSE, name |-> "AuthError", message |-> m, retryable |-> FALSE, time |-> 0 ]

RetryableConfigError(m, t) ==
  [ ok |-> FALSE, name |-> "RetryableConfigError", message |-> m, retryable |-> TRUE, time |-> t ]

\* String(error)
StringOf(e) == e.name \o ": " \o e.message

\* What client.checkAuth() can do: resolve with the granted capabilities, reject with
\* an AuthError (401/403), reject with another error, or never settle
CheckAuthOutcomes ==
  { [ kind |-> "resolves", read |-> r, write |-> w ] : r \in BOOLEAN, w \in BOOLEAN }
  \cup { [ kind |-> k, read |-> FALSE, write |-> FALSE ] : k \in {"authError", "error", "never"} }

\* Variant of the cloud validation that never looks at the granted capabilities
validateCloudIgnoringCapabilities(config, outcome) ==
  IF config.cloudAccountName = "" THEN PlainError("Account name must not be empty.")
  ELSE IF config.cloudAccountPassword = "" THEN PlainError("Password must not be empty.")
  ELSE IF config.cloudGuildName = "" THEN PlainError("Guild name must not be empty.")
  ELSE IF outcome.kind = "authError" THEN AuthError("Unauthorized")
  ELSE IF outcome.kind # "resolves"
  THEN RetryableConfigError("Failed to authenticate with the cloud store.", RetryDelay)
  ELSE Ok

\* Variant of the cloud validation that treats a timeout as a terminal failure
validateCloudTimeoutTerminal(config, outcome) ==
  IF config.cloudAccountName = "" THEN PlainError("Account name must not be empty.")
  ELSE IF config.cloudAccountPassword = "" THEN PlainError("Password must not be empty.")
  ELSE IF config.cloudGuildName = "" THEN PlainError("Guild name must not be empty.")
  ELSE IF outcome.kind = "authError" THEN AuthError("Unauthorized")
  ELSE IF outcome.kind = "never" THEN PlainError("Authentication timed out")
  ELSE IF outcome.kind = "error"
  THEN RetryableConfigError("Failed to authenticate with the cloud store.", RetryDelay)
  ELSE IF ~outcome.read THEN PlainError("User is not authorized to access the guild.")
  ELSE IF ~outcome.write /\ config.cloudUpload
  THEN PlainError("User is not authorized to upload to the guild.")
  ELSE Ok

\* Manager.validateCloudBaseConfig for one outcome of the race between checkAuth and
\* the promise bomb ("never": the bomb won): what the validation settles with
validateCloudBaseConfigFor(config, outcome) ==
  IF config.cloudAccountName = "" THEN PlainError("Account name must not be empty.")
  ELSE IF config.cloudAccountPassword = "" THEN PlainError("Password must not be empty.")
  ELSE IF config.cloudGuildName = "" THEN PlainError("Guild name must not be empty.")
  ELSE IF outcome.kind = "authError" THEN AuthError("Unauthorized")
  ELSE IF outcome.kind # "resolves"
  THEN RetryableConfigError("Failed to authenticate with the cloud store.", RetryDelay)
  ELSE IF ~outcome.read THEN PlainError("User is not authorized to access the guild.")
  ELSE IF ~outcome.write /\ config.cloudUpload
  THEN PlainError("User is not authorized to upload to the guild.")
  ELSE Ok

\* One outcome of each kind the pipeline tells apart: success, a terminal failure
\* and a retryable failure
PipelineAuthOutcomes ==
  { o \in CheckAuthOutcomes : o.kind \in {"authError", "error"} \/ (o.read /\ o.write) }

\* Manager.validateCloudBaseConfig as stage.validate sees it: the results the
\* validation can settle with
validateCloudBaseConfig(config) ==
  { validateCloudBaseConfigFor(config, o) : o \in PipelineAuthOutcomes }

\* Manager.validateBaseConfig: the local check of the storage path
validateBaseConfig(config) ==
  IF config.storagePath = "" THEN PlainError("Storage path is invalid.") ELSE Ok

\* Manager.validateBaseCfg: the possible results for a base snapshot
validateBaseCfg(config) ==
  IF ~validateBaseConfig(config).ok
  THEN { validateBaseConfig(config) }
  ELSE IF config.cloudStorage
       THEN validateCloudBaseConfig(config)
       ELSE { Ok }

\* Manager.validateVideoConfig
validateVideoConfig(config) ==
  IF config.obsCaptureMode = "window_capture" /\ config.obsWindowName = ""
  THEN { PlainError("Must select a window in the scene settings, if none appear, make sure WoW is running.") }
  ELSE { Ok }

\* validateFlavour is imported from ./util: it accepts or rejects the snapshot
validateFlavour(config) ==
  { Ok, PlainError("Invalid flavour configuration.") }

endsWithPng(p) ==
  Len(p) >= 4 /\ SubSeq(p, Len(p) - 3, Len(p)) = ".png"

\* Manager.validateOverlayConfig
validateOverlayConfig(config) ==
  IF ~config.chatOverlayOwnImage THEN { Ok }
  ELSE IF ~config.cloudStorage
  THEN { PlainError("To use a custom overlay, enable cloud storage.") }
  ELSE IF config.chatOverlayOwnImagePath = ""
  THEN { PlainError("Overlay image was not provided for custom overlay.") }
  ELSE IF ~endsWithPng(config.chatOverlayOwnImagePath)
  THEN { PlainError("Overlay image must be a PNG file") }
  ELSE { Ok, PlainError(config.chatOverlayOwnImagePath \o " does not exist") }

\* stage.validate(newConfig): the set of results the call can settle with
StageValidate(i, config) ==
  CASE i = 1 -> validateBaseCfg(config)
    [] i = 2 -> validateVideoConfig(config)
    [] i = 3 -> { Ok }
    [] i = 4 -> validateFlavour(config)
    [] i = 5 -> validateOverlayConfig(config)

\* Whether stage.validate(newConfig) waits for I/O before it settles (TRUE) or
\* settles within the microtask queue (FALSE).
ValidateSuspends(i, config) ==
  CASE i = 1 -> { config.storagePath # "" }
    [] i = 2 -> { FALSE }
    [] i = 3 -> { FALSE }
    [] i = 4 -> { TRUE, FALSE }
    [] i = 5 -> { /\ config.chatOverlayOwnImage
                  /\ config.cloudStorage
                  /\ config.chatOverlayOwnImagePath # ""
                  /\ endsWithPng(config.chatOverlayOwnImagePath) }

\* Whether stage.configure(newConfig) awaits an engine call: configureObsBase always
\* awaits recorder.stop(), configureFlavour only when the engine is recording.
ConfigureSuspends(i, obs) ==
  CASE i = 1 -> TRUE
    [] i = 4 -> obs = "Recording"
    [] OTHER -> FALSE

\* An awaited engine call can reject; a configure without one returns normally.
ConfigureResults(io) == IF io THEN { "ok", "throw" } ELSE { "ok" }

-----------------------------------------------------------------------------
(* Status *)

\* The engine states refreshStatus tells apart
EngineStates == {"Offline", "Starting", "Recording", "Stopping"}

NewHandler == [ ref |-> TRUE, destroyed |-> FALSE, activity |-> FALSE, overrunning |-> FALSE ]
NoHandler  == [ ref |-> FALSE, destroyed |-> FALSE, activity |-> FALSE, overrunning |-> FALSE ]

\* handler?.overrunning || ... over the three handler fields
inOverrun(hs) == \E f \in Flavours : hs[f].ref /\ hs[f].overrunning

\* handler?.activity || ... over the three handler fields
inActivity(hs) == \E f \in Flavours : hs[f].ref /\ hs[f].activity

\* Variant of refreshStatus that looks at the activity sources before the flags
refreshStatusActivityFirst(reconf, valid, msg, hs, obs) ==
  IF inOverrun(hs) THEN [ status |-> "Overrunning", msg |-> "" ]
  ELSE IF inActivity(hs) THEN [ status |-> "Recording", msg |-> "" ]
  ELSE IF reconf THEN [ status |-> "Reconfiguring", msg |-> "" ]
  ELSE IF ~valid THEN [ status |-> "InvalidConfig", msg |-> msg ]
  ELSE IF obs = "Recording" THEN [ status |-> "ReadyToRecord", msg |-> "" ]
  ELSE [ status |-> "WaitingForWoW", msg |-> "" ]

\* Manager.refreshStatus: the 'updateRecStatus' message it sends
refreshStatus(reconf, valid, msg, hs, obs) ==
  IF reconf THEN [ status |-> "Reconfiguring", msg |-> "" ]
  ELSE IF ~valid THEN [ status |-> "InvalidConfig", msg |-> msg ]
  ELSE IF inOverrun(hs) THEN [ status |-> "Overrunning", msg |-> "" ]
  ELSE IF inActivity(hs) THEN [ status |-> "Recording", msg |-> "" ]
  ELSE IF obs = "Recording" THEN [ status |-> "ReadyToRecord", msg |-> "" ]
  ELSE [ status |-> "WaitingForWoW", msg |-> "" ]

\* The mic states the engine reports
MicStates == {"NONE", "MUTED", "LISTENING"}

\* Manager.refreshStatus: the 'updateMicStatus' message it sends, "NotSent" when it
\* returns before it reaches refreshMicStatus
refreshMicStatus(reconf, valid, mic) ==
  IF reconf THEN "NotSent"
  ELSE IF ~valid THEN "NotSent"
  ELSE mic

-----------------------------------------------------------------------------
(* manage() invocations *)

IdleProc ==
  [ pc |-> "idle", passNo |-> 0, i |-> 0, newConfig |-> NoConfig, io |-> FALSE,
    log |-> << >>, outcome |-> "none", arrived |-> FALSE ]

Running(c) == procs[c].pc # "idle"

\* A pass (internalManage) of invocation c is executing
InPass(c) == procs[c].pc \in {"validate", "configure"}

\* No continuation is waiting in the microtask queue: every invocation has returned
\* or waits for I/O.  Only then is a new event delivered.
MicrotasksDrained ==
  \A c \in Procs : procs[c].pc = "idle" \/ (InPass(c) /\ procs[c].io)

\* The event that lets invocation c continue can be delivered
CanResume(c) ==
  IF procs[c].io THEN MicrotasksDrained ELSE TRUE

\* forceStop() is not running
IdleForce == [ pc |-> "idle", told |-> {}, visited |-> {}, returned |-> "none" ]

\* No remote video operation is in flight
IdleCloudOp == [ op |-> "none", pc |-> "idle", outcome |-> "none", returned |-> "none" ]

FreeProc == CHOOSE c \in Procs : procs[c].pc = "idle" /\ \A d \in Procs : procs[d].pc = "idle" => c <= d

-----------------------------------------------------------------------------
(* internalManage *)

\* Variant of the stage loop that validates a stage whether or not it is valid
StageLoopAlwaysValidates(from, st, lg) ==
  IF from > NumStages
  THEN [ i |-> from, stages |-> st, log |-> lg ]
  ELSE [ i |-> from, stages |-> [st EXCEPT ![from].valid = FALSE],
         log |-> Append(Append(lg, <<"get", from>>), <<"validate", from>>) ]

\* The stage loop of internalManage from stage `from` up to the first stage that
\* has to be validated: fetch, compare, invalidate on change, skip when valid.
RECURSIVE StageLoop(_, _, _)
StageLoop(from, st, lg) ==
  IF from > NumStages
  THEN [ i |-> from, stages |-> st, log |-> lg ]
  ELSE LET newConfig == StageGet(from, cfg)
           stageConfigChanged == ~isEqual(newConfig, st[from].current)
           st1 == IF stageConfigChanged THEN [st EXCEPT ![from].valid = FALSE] ELSE st
           lg1 == Append(lg, <<"get", from>>)
       IN  IF st1[from].valid
           THEN StageLoop(from + 1, st1, lg1)
           ELSE [ i |-> from, stages |-> st1, log |-> Append(lg1, <<"validate", from>>) ]

\* Runs the stage loop for invocation c from stage `from`; either the pass reaches
\* its end (setConfigValid) or it calls stage.validate and awaits it.
\* rc, pub, mic: reconfiguring and the published rec and mic status as this segment has
\* set them so far.
RunLoop(c, passNo, arr, from, st, lg, rc, pub, mic, hs, obs) ==
  LET r == StageLoop(from, st, lg) IN
  /\ stages' = r.stages
  /\ IF r.i > NumStages
     THEN /\ reconfiguring' = FALSE
          /\ configValid' = TRUE
          /\ configMessage' = ""
          /\ published' = refreshStatus(FALSE, TRUE, "", hs, obs)
          /\ micPublished' = refreshMicStatus(FALSE, TRUE, obsMicState)
          /\ procs' = [procs EXCEPT ![c] =
                 [ pc |-> "afterPass", passNo |-> passNo, i |-> 0, newConfig |-> NoConfig,
                   io |-> FALSE, log |-> r.log, outcome |-> "valid", arrived |-> arr ]]
     ELSE /\ reconfiguring' = rc
          /\ published' = pub
          /\ micPublished' = mic
          /\ UNCHANGED <<configValid, configMessage>>
          /\ \E io \in ValidateSuspends(r.i, StageGet(r.i, cfg)) :
               procs' = [procs EXCEPT ![c] =
                 [ pc |-> "validate", passNo |-> passNo, i |-> r.i,
                   newConfig |-> StageGet(r.i, cfg), io |-> io, log |-> r.log,
                   outcome |-> "none", arrived |-> arr ]]

\* The start of internalManage: reconfiguring, refreshStatus, clearTimeout, then the loop
StartPass(c, passNo, arr, st, hs, obs) ==
  /\ retryPending' = FALSE
  /\ retryTime' = 0
  /\ owed' = "none"
  /\ RunLoop(c, passNo, arr, 1, st, << >>, TRUE,
             refreshStatus(TRUE, configValid, configMessage, hs, obs),
             refreshMicStatus(TRUE, configValid, obsMicState), hs, obs)

-----------------------------------------------------------------------------
(* manage *)

\* Variant of the gate test that lets every call through
GateNeverClosed(act) == FALSE

\* manage(): `if (this.active)`
GateClosed(act) == act

\* manage() called with the gate and stage table as the caller left them
Manage(act, q, st, hs, obs, rp) ==
  IF GateClosed(act)
  THEN /\ queued' = TRUE
       /\ active' = act
       /\ stages' = st
       /\ retryPending' = rp
       /\ retryTime' = IF rp THEN retryTime ELSE 0
       /\ procs' = [c \in Procs |->
                      IF procs[c].passNo = 1
                      THEN [procs[c] EXCEPT !.arrived = TRUE]
                      ELSE procs[c]]
       /\ owed' = IF owed = "changed" THEN "called" ELSE owed
       /\ UNCHANGED <<configValid, configMessage, reconfiguring, published, micPublished>>
  ELSE /\ active' = TRUE
       /\ queued' = q
       /\ StartPass(FreeProc, 1, FALSE, st, hs, obs)

\* An external trigger (IPC 'recorder' message, start-up) calls manage()
ManageCall ==
  /\ MicrotasksDrained
  /\ Manage(active, queued, stages, handlers, obsState, retryPending)
  /\ UNCHANGED <<cfg, orphanTimers, obsState, handlers, crashes, changes, cloudClient,
                 recovering, cloudVars, otherVars, calls, pollVars>>

\* The set of retry timers that can fire
PendingTimers ==
  (IF retryPending THEN {"current"} ELSE {}) \cup (IF orphanTimers > 0 THEN {"orphan"} ELSE {})

\* Variant of the timer callback that does not call manage()
RetryTimerFiresWithoutManage ==
  /\ MicrotasksDrained
  /\ PendingTimers # {}
  /\ retryPending' = FALSE
  /\ retryTime' = 0
  /\ orphanTimers' = 0
  /\ UNCHANGED <<cfg, stages, active, queued, configValid, configMessage, reconfiguring,
                 obsState, handlers, published, micPublished, procs, crashes, changes,
                 cloudClient, owed, recovering, cloudVars, otherVars, calls, pollVars>>

\* A retry timer fires: () => this.manage()
RetryTimerFires ==
  /\ MicrotasksDrained
  /\ \E t \in PendingTimers :
       /\ orphanTimers' = IF t = "orphan" THEN orphanTimers - 1 ELSE orphanTimers
       /\ Manage(active, queued, stages, handlers, obsState,
                 IF t = "current" THEN FALSE ELSE retryPending)
  /\ UNCHANGED <<cfg, obsState, handlers, crashes, changes, cloudClient, recovering, cloudVars, otherVars, calls,
                 pollVars>>

\* The user changes one configuration value
ConfigChange ==
  /\ MicrotasksDrained
  /\ changes < MaxChanges
  /\ \E k \in ConfigKeys : \E v \in ConfigDomain[k] :
       /\ v # cfg[k]
       /\ cfg' = [cfg EXCEPT ![k] = v]
  /\ changes' = changes + 1
  /\ owed' = IF owed = "none" THEN "changed" ELSE owed
  /\ UNCHANGED <<stages, active, queued, configValid, configMessage, reconfiguring,
                 retryPending, retryTime, orphanTimers, obsState, handlers, published,
                 micPublished, procs, crashes, cloudClient, recovering, cloudVars, otherVars, calls,
                 pollVars>>

-----------------------------------------------------------------------------
(* The awaits of internalManage and manage *)

\* Variant of the catch block without its `return`: the loop goes on with the next stage
ValidateFailsAndContinues(c, error) ==
  /\ retryPending' = retryPending
  /\ retryTime' = retryTime
  /\ orphanTimers' = orphanTimers
  /\ UNCHANGED <<obsState, handlers, cloudClient>>
  /\ LET r == StageLoop(procs[c].i + 1, stages, procs[c].log) IN
       /\ stages' = r.stages
       /\ reconfiguring' = FALSE
       /\ configValid' = (r.i > NumStages)
       /\ configMessage' = IF r.i > NumStages THEN "" ELSE StringOf(error)
       /\ published' = refreshStatus(FALSE, configValid', configMessage', handlers, obsState)
       /\ micPublished' = refreshMicStatus(FALSE, configValid', obsMicState)
       /\ procs' = [procs EXCEPT ![c] =
              IF r.i > NumStages
              THEN [ pc |-> "afterPass", passNo |-> @.passNo, i |-> 0, newConfig |-> NoConfig,
                     io |-> FALSE, log |-> r.log, outcome |-> "valid", arrived |-> @.arrived ]
              ELSE [ pc |-> "validate", passNo |-> @.passNo, i |-> r.i,
                     newConfig |-> StageGet(r.i, cfg), io |-> FALSE, log |-> r.log,
                     outcome |-> "none", arrived |-> @.arrived ]]

\* Variant of the catch block that does not reset `reconfiguring`
ValidateFailsStillReconfiguring(c, error) ==
  /\ reconfiguring' = reconfiguring
  /\ configValid' = FALSE
  /\ configMessage' = StringOf(error)
  /\ published' = refreshStatus(reconfiguring, FALSE, StringOf(error), handlers, obsState)
  /\ micPublished' = refreshMicStatus(reconfiguring, FALSE, obsMicState)
  /\ retryPending' = (retryPending \/ error.retryable)
  /\ retryTime' = IF error.retryable THEN error.time ELSE retryTime
  /\ orphanTimers' = orphanTimers
  /\ procs' = [procs EXCEPT ![c] =
         [ pc |-> "afterPass", passNo |-> @.passNo, i |-> @.i, newConfig |-> NoConfig,
           io |-> FALSE, log |-> @.log, outcome |-> "invalid", arrived |-> @.arrived ]]
  /\ UNCHANGED <<stages, obsState, handlers, cloudClient>>

\* The catch block of internalManage: the stage is not valid, report and drop out
ValidateFails(c, error) ==
  /\ (error.retryable /\ retryPending) => orphanTimers < MaxOrphans
  /\ reconfiguring' = FALSE
  /\ configValid' = FALSE
  /\ configMessage' = StringOf(error)
  /\ published' = refreshStatus(FALSE, FALSE, StringOf(error), handlers, obsState)
  /\ micPublished' = refreshMicStatus(FALSE, FALSE, obsMicState)
  /\ retryPending' = (retryPending \/ error.retryable)
  /\ retryTime' = IF error.retryable THEN error.time ELSE retryTime
  /\ orphanTimers' = IF error.retryable /\ retryPending THEN orphanTimers + 1 ELSE orphanTimers
  /\ procs' = [procs EXCEPT ![c] =
         [ pc |-> "afterPass", passNo |-> @.passNo, i |-> @.i, newConfig |-> NoConfig,
           io |-> FALSE, log |-> @.log, outcome |-> "invalid", arrived |-> @.arrived ]]
  /\ UNCHANGED <<stages, obsState, handlers, cloudClient>>

\* stage.validate succeeded: log and call stage.configure(newConfig)
ValidateSucceeds(c) ==
  /\ procs' = [procs EXCEPT ![c] =
         [ @ EXCEPT !.pc = "configure",
                    !.io = ConfigureSuspends(procs[c].i, obsState),
                    !.log = Append(@, <<"configure", procs[c].i>>) ]]
  /\ UNCHANGED <<stages, reconfiguring, configValid, configMessage, published, micPublished,
                 retryPending, retryTime, orphanTimers, obsState, handlers, cloudClient>>

\* `await stage.validate(newConfig)` of invocation c settles
ValidateSettles ==
  \E c \in Procs :
    /\ procs[c].pc = "validate"
    /\ CanResume(c)
    /\ \E result \in StageValidate(procs[c].i, procs[c].newConfig) :
         IF result.ok THEN ValidateSucceeds(c) ELSE ValidateFails(c, result)
    /\ UNCHANGED <<cfg, active, queued, crashes, changes, owed, recovering, cloudVars,
                   otherVars, calls, pollVars>>

\* configureFlavour: the handlers after the old ones are destroyed and the selected ones built
configureFlavour(config, hs) ==
  LET destroyed == [f \in Flavours |->
                      IF hs[f].ref THEN [hs[f] EXCEPT !.destroyed = TRUE] ELSE hs[f]]
      wanted == [ retail |-> config.recordRetail, classic |-> config.recordClassic,
                  era |-> config.recordEra ]
  IN  [f \in Flavours |-> IF wanted[f] THEN NewHandler ELSE destroyed[f]]

\* Every flavour snapshot
FlavourConfigs == [ recordRetail : BOOLEAN, recordClassic : BOOLEAN, recordEra : BOOLEAN ]

\* Whether a flavour snapshot selects handler field f
Selects(config, f) ==
  \/ f = "retail" /\ config.recordRetail
  \/ f = "classic" /\ config.recordClassic
  \/ f = "era" /\ config.recordEra

\* configureFlavour: the calls that unsubscribe and destroy the handler field f refers to
DestroyCalls(hs, f) ==
  IF hs[f].ref THEN << <<f, "removeAllListeners">>, <<f, "destroy">> >> ELSE << >>

\* configureFlavour: the calls that construct the handler of field f and wire its
\* 'state-change' signal to refreshStatus
BuildCalls(config, f) ==
  IF Selects(config, f) THEN << <<f, "new">>, <<f, "on state-change">> >> ELSE << >>

\* Variant of configureFlavour that replaces the handlers one field at a time
configureFlavourFieldByField(config, hs, obs) ==
  (IF obs = "Recording" THEN << <<"recorder", "stop">> >> ELSE << >>)
  \o DestroyCalls(hs, "retail") \o BuildCalls(config, "retail")
  \o DestroyCalls(hs, "classic") \o BuildCalls(config, "classic")
  \o DestroyCalls(hs, "era") \o BuildCalls(config, "era")
  \o << <<"poller", "reconfigureFlavour">>, <<"poller", "start">> >>

\* Manager.configureFlavour: the calls it makes, in order
configureFlavourCalls(config, hs, obs) ==
  (IF obs = "Recording" THEN << <<"recorder", "stop">> >> ELSE << >>)
  \o DestroyCalls(hs, "retail") \o DestroyCalls(hs, "classic") \o DestroyCalls(hs, "era")
  \o BuildCalls(config, "retail") \o BuildCalls(config, "classic") \o BuildCalls(config, "era")
  \o << <<"poller", "reconfigureFlavour">>, <<"poller", "start">> >>

\* Manager.configureObsAudio: the audio sources are configured only if the poller
\* reports the game process running
configureObsAudio(config, pl, audio) ==
  IF pl.isWowRunning THEN config ELSE audio

\* What stage.configure(newConfig) does to the engine, the handlers, the cloud client
\* and the poller
ConfigureEffects(i, config, io) ==
  /\ obsState' = IF io THEN "Offline" ELSE obsState
  /\ handlers' = IF i = 4 THEN configureFlavour(config, handlers) ELSE handlers
  /\ cloudClient' = IF i = 1 THEN config.cloudStorage ELSE cloudClient
  /\ calls' = IF i = 4
              THEN configureFlavourCalls(config, handlers, IF io THEN "Recording" ELSE "Offline")
              ELSE calls
  /\ poller' = IF i \in {1, 4} THEN [poller EXCEPT !.started = TRUE] ELSE poller
  /\ audioSources' = IF i = 3 THEN configureObsAudio(config, poller, audioSources)
                      ELSE audioSources

\* Variant of the step after stage.configure that keeps the snapshot but does not
\* mark the stage valid
ConfigureSucceedsLeavesInvalid(c) ==
  LET p == procs[c]
      st == [stages EXCEPT ![p.i] = [ valid |-> FALSE, current |-> p.newConfig ]]
  IN  /\ ConfigureEffects(p.i, p.newConfig, p.io)
      /\ recovering' = recovering
      /\ RunLoop(c, p.passNo, p.arrived, p.i + 1, st, p.log, reconfiguring, published,
                 micPublished, handlers', obsState')

\* stage.configure returned: mark the stage valid, keep the snapshot, go on with the loop
ConfigureSucceeds(c) ==
  LET p == procs[c]
      st == [stages EXCEPT ![p.i] = [ valid |-> TRUE, current |-> p.newConfig ]]
      \* the engine emits 'state-change' when recorder.stop() changes its state
      pub == IF p.io /\ obsState # "Offline"
             THEN refreshStatus(reconfiguring, configValid, configMessage, handlers, "Offline")
             ELSE published
      mic == IF p.io /\ obsState # "Offline"
             THEN refreshMicStatus(reconfiguring, configValid, obsMicState)
             ELSE micPublished
  IN  /\ ConfigureEffects(p.i, p.newConfig, p.io)
      /\ recovering' = recovering
      /\ RunLoop(c, p.passNo, p.arrived, p.i + 1, st, p.log, reconfiguring, pub, mic,
                 handlers', obsState')

\* stage.configure rejected: internalManage and manage() reject, nothing is caught
ConfigureThrows(c) ==
  /\ procs' = [procs EXCEPT ![c] = IdleProc]
  /\ recovering' = IF recovering = c THEN 0 ELSE recovering
  /\ UNCHANGED <<stages, reconfiguring, configValid, configMessage, published, micPublished,
                 obsState, handlers, cloudClient, calls, poller, audioSources>>

\* `await stage.configure(newConfig)` of invocation c settles
ConfigureSettles ==
  \E c \in Procs :
    /\ procs[c].pc = "configure"
    /\ CanResume(c)
    /\ \E result \in ConfigureResults(procs[c].io) :
         IF result = "ok" THEN ConfigureSucceeds(c) ELSE ConfigureThrows(c)
    /\ UNCHANGED <<cfg, active, queued, retryPending, retryTime, orphanTimers, crashes,
                   changes, owed, cloudVars, otherVars, wowEvent, videoQueue>>

\* manage() after `await this.internalManage()`: run the queued call or release the gate
ManageResumes ==
  \E c \in Procs :
    /\ procs[c].pc = "afterPass"
    /\ IF procs[c].passNo = 1 /\ queued
       THEN /\ queued' = FALSE
            /\ active' = active
            /\ recovering' = recovering
            /\ StartPass(c, 2, procs[c].arrived, stages, handlers, obsState)
       ELSE /\ active' = FALSE
            /\ procs' = [procs EXCEPT ![c] = IdleProc]
            /\ recovering' = IF recovering = c THEN 0 ELSE recovering
            /\ UNCHANGED <<queued, stages, reconfiguring, configValid, configMessage,
                           published, micPublished, retryPending, retryTime, owed>>
    /\ UNCHANGED <<cfg, orphanTimers, obsState, handlers, crashes, changes, cloudClient,
                   cloudVars, otherVars, calls, pollVars>>

\* Manager.recoverRecorderFromCrash: the engine emitted 'crash'
RecoverRecorderFromCrash ==
  /\ MicrotasksDrained
  /\ crashes < MaxCrashes
  /\ crashes' = crashes + 1
  /\ obsState' = "Offline"
  /\ handlers' = [f \in Flavours |->
                    IF handlers[f].ref THEN [handlers[f] EXCEPT !.destroyed = TRUE]
                    ELSE handlers[f]]
  /\ recovering' = FreeProc
  /\ Manage(FALSE, FALSE, [i \in StageIds |-> [stages[i] EXCEPT !.valid = FALSE]],
            handlers', obsState', retryPending)
  /\ audioSources' = NoConfig
  /\ UNCHANGED <<cfg, orphanTimers, changes, cloudClient, cloudVars, otherVars, calls,
                 poller, wowEvent, videoQueue>>

-----------------------------------------------------------------------------
(* Specifications *)

\* The stored configuration when the Manager is constructed: a fresh installation
\* (no storage path yet) or a configured one.
InitialConfigs ==
  { [ storagePath |-> "", cloudStorage |-> FALSE, obsWindowName |-> "",
      speakerVolume |-> 0, recordRetail |-> FALSE, chatOverlayOwnImage |-> FALSE,
      cloudAccountName |-> "", cloudAccountPassword |-> "", cloudGuildName |-> "",
      cloudUpload |-> FALSE ],
    [ storagePath |-> "D:/wr", cloudStorage |-> TRUE, obsWindowName |-> "WoW",
      speakerVolume |-> 1, recordRetail |-> TRUE, chatOverlayOwnImage |-> TRUE,
      cloudAccountName |-> "user", cloudAccountPassword |-> "secret",
      cloudGuildName |-> "guild", cloudUpload |-> TRUE ] }

\* No remote auth check is being followed
NoRemote == [ kind |-> "none", read |-> FALSE, write |-> FALSE ]

\* The state after construction, for a stored configuration out of `configs` and a
\* cloud service that behaves as one of `remotes`
InitFrom(configs, remotes) ==
  /\ cfg \in configs
  /\ stages = [i \in StageIds |-> [ valid |-> FALSE, current |-> StageGet(i, cfg) ]]
  /\ active = FALSE
  /\ queued = FALSE
  /\ configValid = FALSE
  /\ configMessage = ""
  /\ reconfiguring = FALSE
  /\ retryPending = FALSE
  /\ retryTime = 0
  /\ orphanTimers = 0
  /\ obsState = "Offline"
  /\ handlers = [f \in Flavours |-> NoHandler]
  /\ published = [ status |-> "None", msg |-> "" ]
  /\ procs = [c \in Procs |-> IdleProc]
  /\ crashes = 0
  /\ changes = 0
  /\ cloudClient = FALSE
  /\ owed = "none"
  /\ recovering = 0
  /\ now = 0
  /\ remote \in remotes
  /\ deadline = -1
  /\ restart = "idle"
  /\ wow = "idle"
  /\ force = IdleForce
  /\ cloudOp = IdleCloudOp
  /\ calls = << >>
  /\ obsMicState = "NONE"
  /\ micPublished = "NotSent"
  /\ poller = [ started |-> FALSE, isWowRunning |-> FALSE ]
  /\ audioSources = NoConfig
  /\ wowEvent = "none"
  /\ videoQueue = << >>

Init == InitFrom(InitialConfigs, {NoRemote})

NextNoFault ==
  \/ ManageCall
  \/ RetryTimerFires
  \/ ConfigChange
  \/ ValidateSettles
  \/ ConfigureSettles
  \/ ManageResumes

Next ==
  \/ NextNoFault
  \/ RecoverRecorderFromCrash

\* Every event, engine faults included
Spec == Init /\ [][Next]_vars

\* No engine fault
SpecNoFault == Init /\ [][NextNoFault]_vars

-----------------------------------------------------------------------------
(* Steps and states the properties speak about *)

\* The invocations whose pass is executing
PassesExecuting == { c \in Procs : InPass(c) }

\* In this step invocation c begins a pass (its first or its queued second one)
PassStarts(c) ==
  \/ procs[c].pc = "idle" /\ procs'[c].pc # "idle"
  \/ procs[c].pc = "afterPass" /\ procs[c].passNo = 1 /\ procs'[c].passNo = 2

\* In this step the awaited stage.validate of invocation c settles without
\* stage.configure being called: the validation failed
ValidationFailsIn(c) ==
  /\ procs[c].pc = "validate"
  /\ procs'[c].pc # "configure"
  /\ procs'[c].pc = "validate" => procs'[c].i # procs[c].i

\* In this step invocation c calls stage.configure
CallsConfigure(c) ==
  /\ procs[c].pc = "validate"
  /\ procs'[c].pc = "configure"

\* The stage numbers of the entries of a pass log made by operation op
LoggedStages(lg, op) == { lg[k][2] : k \in { n \in 1..Len(lg) : lg[n][1] = op } }

\* The texts a failed validation of stage i for snapshot config can report
FailureTexts(i, config) == { StringOf(e) : e \in { r \in StageValidate(i, config) : ~r.ok } }

\* Nothing is running and nothing is scheduled: without a new event nothing happens
Quiescent ==
  /\ \A c \in Procs : procs[c].pc = "idle"
  /\ ~active
  /\ ~retryPending
  /\ orphanTimers = 0

-----------------------------------------------------------------------------
(* Properties *)

\* C1: without engine faults at most one manage() invocation is past the gate, so at
\* most one pass executes at any time, and a manage() call (external or from a retry
\* timer) that finds active = TRUE starts no pass: no invocation changes its position.
SingleFlight ==
  /\ [](Cardinality({ c \in Procs : Running(c) }) <= 1)
  /\ [][ (active /\ (ManageCall \/ RetryTimerFires)) =>
           \A c \in Procs : /\ procs'[c].pc = procs[c].pc
                            /\ procs'[c].passNo = procs[c].passNo
                            /\ procs'[c].log = procs[c].log ]_vars

\* C1 witness: a pass is suspended, a call arrived meanwhile and was only queued
SingleFlightWitness ==
  \E c \in Procs : InPass(c) /\ procs[c].io /\ procs[c].arrived /\ queued /\ active

\* C2: crash recovery never interleaves with a pass: never two passes executing at
\* once, and the gate is never open (active = FALSE) while a pass is executing.
RecoveryNeverInterleaves ==
  /\ Cardinality(PassesExecuting) <= 1
  /\ (PassesExecuting # {}) => active

\* C3: when the first pass of a manage() invocation completes, a second pass follows
\* exactly when at least one manage() call arrived during the first pass, and no
\* invocation runs more than two passes.
CoalescingExact ==
  [][ \A c \in Procs :
        (procs[c].pc = "afterPass" /\ procs[c].passNo = 1 /\ procs'[c] # procs[c]) =>
           /\ (procs'[c].passNo = 2) <=> procs[c].arrived
           /\ procs'[c].passNo \in {0, 2} ]_vars

\* C4: queued = TRUE implies active = TRUE in every reachable state.
QueuedOnlyWhileActive == queued => active

\* C5: no request is lost: the program never comes to rest (no invocation running, gate
\* open, no retry timer pending) with a manage() call that followed a configuration
\* change still owed a pass.
NoRequestLost == ~(Quiescent /\ owed = "called")

\* C6: when the validation of stage i fails the pass ends there: the step changes no
\* stage, the invocation leaves internalManage with the configuration invalid, and the
\* pass has fetched, validated and applied no stage after i.
StageShortCircuit ==
  [][ \A c \in Procs :
        ValidationFailsIn(c) =>
          /\ stages' = stages
          /\ procs'[c].pc = "afterPass"
          /\ procs'[c].outcome = "invalid"
          /\ \A k \in 1..Len(procs'[c].log) : procs'[c].log[k][2] <= procs[c].i ]_vars

\* C6 witness: a pass was aborted at a stage before the last while a later stage's
\* stored snapshot differs from the snapshot the stage holds
StageShortCircuitWitness ==
  \E c \in Procs :
    /\ procs[c].pc = "afterPass"
    /\ procs[c].outcome = "invalid"
    /\ \E j \in StageIds : j > procs[c].i /\ StageGet(j, cfg) # stages[j].current

\* C7: a pass that begins with every stage valid and every fetched snapshot equal to
\* the stage's current snapshot calls no validate and no configure, changes no stage
\* and ends with configValid = TRUE.
IdempotentSkip ==
  [][ \A c \in Procs :
        ( /\ PassStarts(c)
          /\ crashes' = crashes
          /\ \A i \in StageIds :
               stages[i].valid /\ isEqual(StageGet(i, cfg), stages[i].current) ) =>
          /\ stages' = stages
          /\ configValid'
          /\ ~reconfiguring'
          /\ procs'[c].pc = "afterPass"
          /\ LoggedStages(procs'[c].log, "validate") = {}
          /\ LoggedStages(procs'[c].log, "configure") = {}
          /\ LoggedStages(procs'[c].log, "get") = StageIds ]_vars

\* C7 witness: a pass has just ended that fetched every stage and validated none
IdempotentSkipWitness ==
  \E c \in Procs :
    /\ procs[c].pc = "afterPass"
    /\ procs[c].outcome = "valid"
    /\ LoggedStages(procs[c].log, "get") = StageIds
    /\ LoggedStages(procs[c].log, "validate") = {}

\* C8: stages are applied in declaration order, and whenever stage.configure is
\* called for stage j every stage before j is valid.
StageOrder ==
  [][ \A c \in Procs :
        CallsConfigure(c) =>
          /\ \A k \in StageIds : k < procs[c].i => stages[k].valid
          /\ \A k \in LoggedStages(procs[c].log, "configure") : k < procs[c].i ]_vars

\* C9: current changes only when stage.configure returns for that stage, to the
\* snapshot that was validated and applied, with valid = TRUE; a failed validation
\* leaves the stage's current snapshot unchanged and its valid flag FALSE.
CurrentReflectsApplied ==
  [][ /\ \A i \in StageIds :
           stages'[i].current # stages[i].current =>
             \E c \in Procs : /\ procs[c].pc = "configure"
                              /\ procs[c].i = i
                              /\ stages'[i] = [ valid |-> TRUE, current |-> procs[c].newConfig ]
      /\ \A c \in Procs :
           ValidationFailsIn(c) =>
             /\ stages'[procs[c].i].current = stages[procs[c].i].current
             /\ ~stages'[procs[c].i].valid ]_vars

\* C10: a validation failure ends the pass with configValid = FALSE, configMessage
\* the failure text, reconfiguring = FALSE and InvalidConfig published with that text;
\* manage() then goes on: it runs the queued second pass if one is owed, and otherwise
\* releases the gate and returns; and a manage() call with the gate open starts a pass.
ValidationFailureSurfaced ==
  /\ [][ \A c \in Procs :
           ValidationFailsIn(c) =>
             /\ ~configValid'
             /\ configMessage' \in FailureTexts(procs[c].i, procs[c].newConfig)
             /\ ~reconfiguring'
             /\ published' = [ status |-> "InvalidConfig", msg |-> configMessage' ]
             /\ procs'[c].pc = "afterPass" ]_vars
  /\ [][ \A c \in Procs :
           (procs[c].pc = "afterPass" /\ procs[c].outcome = "invalid" /\ procs'[c] # procs[c]) =>
             IF procs[c].passNo = 1 /\ queued
             THEN procs'[c].passNo = 2 /\ ~queued'
             ELSE procs'[c].pc = "idle" /\ ~active' ]_vars
  /\ [][ (ManageCall /\ ~active) => \E c \in Procs : PassStarts(c) ]_vars

\* C10 witness: after a failed validation the gate is open again, the configuration is
\* reported invalid with the failure text
ValidationFailureSurfacedWitness ==
  /\ \A c \in Procs : procs[c].pc = "idle"
  /\ ~active
  /\ ~configValid
  /\ ~reconfiguring
  /\ configMessage # ""
  /\ published = [ status |-> "InvalidConfig", msg |-> configMessage ]

-----------------------------------------------------------------------------
(* Retry timer *)

\* The number of retry timers that are pending
TimersPending == (IF retryPending THEN 1 ELSE 0) + orphanTimers

\* The text internalManage reports for the retryable failure of the remote check
RetryableText == "RetryableConfigError: Failed to authenticate with the cloud store."

\* C11: a failed validation whose error is not retryable schedules no retry timer, and
\* once manage() has returned after such a failure no retry timer is pending, so that
\* only an external manage() call or crash recovery can start a pass; a failure of the
\* remote check that is not an authorization error schedules exactly one retry timer,
\* with a delay of 10000 ms.
TerminalVsRetryable ==
  /\ [][ \A c \in Procs :
           ValidationFailsIn(c) =>
             IF configMessage' = RetryableText
             THEN /\ TimersPending' = TimersPending + 1
                  /\ retryPending'
                  /\ retryTime' = 10000
             ELSE /\ TimersPending' = TimersPending
                  /\ retryPending' = retryPending
                  /\ retryTime' = retryTime ]_vars
  /\ []( ( /\ \A c \in Procs : procs[c].pc = "idle"
           /\ ~configValid
           /\ configMessage # ""
           /\ configMessage # RetryableText ) => TimersPending = 0 )

\* C14: a step that begins a pass leaves no timer behind that Manager.retryTimer refers
\* to, at most one retry timer is pending in any state, and no retry timer is pending
\* while a pass executes that began after the timer was scheduled (no timer is pending
\* that Manager.retryTimer no longer refers to).
RetryCancellation ==
  /\ [][ \A c \in Procs : PassStarts(c) => ~retryPending' ]_vars
  /\ [](TimersPending <= 1)
  /\ [](orphanTimers = 0)

-----------------------------------------------------------------------------
(* The remote auth check of validateCloudBaseConfig, step by step *)

TimeStep == 5000
MaxNow == 15000

\* A configured installation with every combination of the cloud account settings
CloudConfigs ==
  { [ storagePath |-> "D:/wr", cloudStorage |-> TRUE, obsWindowName |-> "WoW",
      speakerVolume |-> 1, recordRetail |-> TRUE, chatOverlayOwnImage |-> TRUE,
      cloudAccountName |-> a, cloudAccountPassword |-> pw, cloudGuildName |-> g,
      cloudUpload |-> u ] :
    a \in {"", "user"}, pw \in {"", "secret"}, g \in {"", "guild"}, u \in BOOLEAN }

\* Invocation c awaits stage.validate of the obsBase stage
AwaitingBase(c) == procs[c].pc = "validate" /\ procs[c].i = 1

\* The account name, password and guild name are all given
NamesGiven(config) ==
  /\ config.cloudAccountName # ""
  /\ config.cloudAccountPassword # ""
  /\ config.cloudGuildName # ""

\* The race between checkAuth() and the promise bomb is on for invocation c
RacePending(c) == AwaitingBase(c) /\ deadline >= 0

\* The first manage() call after construction (application start-up)
FirstManage ==
  /\ published.status = "None"
  /\ ManageCall

\* Variant of validateBaseCfg that runs the cloud validation before the local one
checkAuthCalledBeforeLocal(config) ==
  /\ config.cloudStorage
  /\ NamesGiven(config)

\* validateBaseCfg and validateCloudBaseConfig: whether client.checkAuth() is called
\* for a base snapshot
checkAuthCalled(config) ==
  /\ validateBaseConfig(config).ok
  /\ config.cloudStorage
  /\ NamesGiven(config)

\* validateBaseConfig threw: validateBaseCfg rejects before it looks at cloudStorage
LocalValidationFails ==
  \E c \in Procs :
    /\ AwaitingBase(c)
    /\ remote.kind # "none"
    /\ deadline = -1
    /\ ~validateBaseConfig(procs[c].newConfig).ok
    /\ ValidateFails(c, validateBaseConfig(procs[c].newConfig))
    /\ UNCHANGED <<cfg, active, queued, crashes, changes, owed, recovering, cloudVars,
                   otherVars, calls, pollVars>>

\* validateBaseConfig returned and cloud storage is off: the validation succeeds
CloudStorageOff ==
  \E c \in Procs :
    /\ AwaitingBase(c)
    /\ remote.kind # "none"
    /\ deadline = -1
    /\ validateBaseConfig(procs[c].newConfig).ok
    /\ ~procs[c].newConfig.cloudStorage
    /\ ValidateSucceeds(c)
    /\ UNCHANGED <<cfg, active, queued, crashes, changes, owed, recovering, cloudVars,
                   otherVars, calls, pollVars>>

\* validateCloudBaseConfig found a name empty and threw before any remote call
CloudNameMissing ==
  \E c \in Procs :
    /\ AwaitingBase(c)
    /\ remote.kind # "none"
    /\ deadline = -1
    /\ validateBaseConfig(procs[c].newConfig).ok
    /\ procs[c].newConfig.cloudStorage
    /\ ~NamesGiven(procs[c].newConfig)
    /\ ValidateFails(c, validateCloudBaseConfigFor(procs[c].newConfig, remote))
    /\ UNCHANGED <<cfg, active, queued, crashes, changes, owed, recovering, cloudVars, otherVars, calls,
                   pollVars>>

\* validateCloudBaseConfig starts Promise.race([client.checkAuth(), getPromiseBomb(10000)])
CheckAuthStarts ==
  \E c \in Procs :
    /\ AwaitingBase(c)
    /\ remote.kind # "none"
    /\ checkAuthCalled(procs[c].newConfig)
    /\ deadline = -1
    /\ deadline' = now + AuthTimeout
    /\ UNCHANGED <<cfg, stages, active, queued, configValid, configMessage, reconfiguring,
                   retryPending, retryTime, orphanTimers, obsState, handlers, published,
                   micPublished, procs, crashes, changes, cloudClient, owed, recovering,
                   now, remote, otherVars, calls, pollVars>>

\* Time passes, up to the moment the next timer is due; a timer that is due fires
\* before time passes on
Tick ==
  /\ deadline >= 0
  /\ now < MaxNow
  /\ ~ \E c \in Procs : RacePending(c) /\ now >= deadline
  /\ now' = IF now < deadline /\ now + TimeStep > deadline THEN deadline ELSE now + TimeStep
  /\ UNCHANGED <<cfg, stages, active, queued, configValid, configMessage, reconfiguring,
                 retryPending, retryTime, orphanTimers, obsState, handlers, published,
                 micPublished, procs, crashes, changes, cloudClient, owed, recovering,
                 remote, deadline, otherVars, calls, pollVars>>

\* client.checkAuth() settles first: the race is won by its result or its rejection
CheckAuthSettles ==
  \E c \in Procs :
    /\ RacePending(c)
    /\ remote.kind \in {"resolves", "authError", "error"}
    /\ LET result == validateCloudBaseConfigFor(procs[c].newConfig, remote) IN
         IF result.ok THEN ValidateSucceeds(c) ELSE ValidateFails(c, result)
    /\ UNCHANGED <<cfg, active, queued, crashes, changes, owed, recovering, cloudVars, otherVars, calls,
                   pollVars>>

\* The promise bomb goes off first: the race rejects with 'Authentication timed out'
BombExplodes ==
  \E c \in Procs :
    /\ RacePending(c)
    /\ now >= deadline
    /\ ValidateFails(c, validateCloudBaseConfigFor(procs[c].newConfig,
                          [ kind |-> "never", read |-> FALSE, write |-> FALSE ]))
    /\ UNCHANGED <<cfg, active, queued, crashes, changes, owed, recovering, cloudVars, otherVars, calls,
                   pollVars>>

NextCloud ==
  \/ FirstManage
  \/ CloudNameMissing
  \/ CheckAuthStarts
  \/ Tick
  \/ CheckAuthSettles
  \/ BombExplodes

\* The base-stage validation of the first pass against every behaviour of the cloud service
SpecCloud == InitFrom(CloudConfigs, CheckAuthOutcomes) /\ [][NextCloud]_vars

\* C12: when the remote auth check never settles, the base-stage validation is still
\* pending at every time up to 10000 ms after it began, it settles at 10000 ms, and it
\* settles as a failure with the retryable error: a retry timer is scheduled and the
\* stage is not applied.
TimeoutRace ==
  /\ [](\A c \in Procs : (remote.kind = "never" /\ RacePending(c)) => now <= 10000)
  /\ [][ \A c \in Procs :
           (remote.kind = "never" /\ RacePending(c) /\ procs'[c] # procs[c]) =>
             /\ now = 10000
             /\ procs'[c].pc = "afterPass"
             /\ procs'[c].outcome = "invalid"
             /\ configMessage' = RetryableText
             /\ retryPending'
             /\ ~stages'[1].valid ]_vars

\* C12 witness: the check never settled, 10000 ms have passed and the validation has
\* failed with the retryable error
TimeoutRaceWitness ==
  /\ remote.kind = "never"
  /\ now = 10000
  /\ deadline = 10000
  /\ configMessage = RetryableText
  /\ retryPending
  /\ \E c \in Procs : procs[c].pc = "afterPass" /\ procs[c].outcome = "invalid"

\* C13: when the remote auth check resolves with {read, write}, the validation fails
\* with an error that is not retryable exactly when read is false, or write is false
\* while cloudUpload is on; otherwise it succeeds and the stage is applied; the failing
\* cases schedule no retry timer.
CapabilitiesChecked ==
  [][ \A c \in Procs :
        (remote.kind = "resolves" /\ CheckAuthSettles /\ procs'[c] # procs[c]) =>
          IF ~remote.read \/ (~remote.write /\ procs[c].newConfig.cloudUpload)
          THEN /\ procs'[c].pc = "afterPass"
               /\ procs'[c].outcome = "invalid"
               /\ ~configValid'
               /\ configMessage' \in { "Error: User is not authorized to access the guild.",
                                       "Error: User is not authorized to upload to the guild." }
               /\ TimersPending' = 0
               /\ retryTime' = 0
          ELSE /\ procs'[c].pc = "configure"
               /\ configMessage' = configMessage ]_vars

\* C13 witness: the check resolved with read but without write while upload is on, and
\* the validation failed without a retry timer
CapabilitiesCheckedWitness ==
  /\ remote = [ kind |-> "resolves", read |-> TRUE, write |-> FALSE ]
  /\ configMessage = "Error: User is not authorized to upload to the guild."
  /\ ~retryPending
  /\ \E c \in Procs : procs[c].pc = "afterPass" /\ procs[c].outcome = "invalid"

-----------------------------------------------------------------------------
(* Automatic retry *)

\* After start-up the retry timer is the only trigger of manage()
NextRetry ==
  \/ FirstManage
  \/ RetryTimerFires
  \/ ConfigChange
  \/ ValidateSettles
  \/ ConfigureSettles
  \/ ManageResumes

\* Timers that are due fire, awaited calls settle and suspended invocations resume
SpecRetry ==
  /\ Init
  /\ [][NextRetry]_vars
  /\ WF_vars(RetryTimerFires)
  /\ WF_vars(ValidateSettles)
  /\ WF_vars(ConfigureSettles)
  /\ WF_vars(ManageResumes)

\* C15: with the retry timer as the only trigger, a pending retry timer leads to a new
\* pass that has cancelled the timer and validates the base stage again; every pass
\* comes to an end; and a pass in which the validations succeed ends with the base
\* stage applied and valid and configValid = TRUE.
RetryRecovers ==
  /\ retryPending ~> (~retryPending /\ \E c \in Procs : AwaitingBase(c))
  /\ (\E c \in Procs : InPass(c)) ~> (\A c \in Procs : ~InPass(c))
  /\ [][ \A c \in Procs :
           (AwaitingBase(c) /\ configMessage = RetryableText /\ procs'[c].pc = "configure") =>
             /\ procs'[c].i = 1
             /\ procs'[c].newConfig = procs[c].newConfig ]_vars
  /\ [](\A c \in Procs :
          (procs[c].pc = "afterPass" /\ procs[c].outcome = "valid") =>
             /\ configValid
             /\ configMessage = ""
             /\ stages[1].valid )

\* C15 witness: the pass the retry timer started after a retryable failure (whose text
\* is still the configuration message) has validated and applied the base stage and
\* goes on with a later stage
RetryRecoversWitness ==
  \E c \in Procs :
    /\ InPass(c)
    /\ procs[c].i > 1
    /\ configMessage = RetryableText
    /\ 1 \in LoggedStages(procs[c].log, "configure")
    /\ stages[1].valid
    /\ cloudClient
    /\ ~retryPending

-----------------------------------------------------------------------------
(* refreshStatus on its own *)

\* A handler field: undefined, or a live handler with its two flags
HandlerStates ==
  { NoHandler } \cup
  { [ ref |-> TRUE, destroyed |-> FALSE, activity |-> a, overrunning |-> o ] :
      a \in BOOLEAN, o \in BOOLEAN }

\* Every combination of the flags and the engine state refreshStatus reads
InitRefresh ==
  /\ cfg \in { c \in InitialConfigs : c.cloudStorage }
  /\ stages = [i \in StageIds |-> [ valid |-> FALSE, current |-> StageGet(i, cfg) ]]
  /\ active = FALSE
  /\ queued = FALSE
  /\ configValid \in BOOLEAN
  /\ configMessage \in {"", "Error: Storage path is invalid."}
  /\ reconfiguring \in BOOLEAN
  /\ retryPending = FALSE
  /\ retryTime = 0
  /\ orphanTimers = 0
  /\ obsState \in EngineStates
  /\ handlers \in [Flavours -> HandlerStates]
  /\ published = [ status |-> "None", msg |-> "" ]
  /\ procs = [c \in Procs |-> IdleProc]
  /\ crashes = 0
  /\ changes = 0
  /\ cloudClient = FALSE
  /\ owed = "none"
  /\ recovering = 0
  /\ now = 0
  /\ remote = NoRemote
  /\ deadline = -1
  /\ restart = "idle"
  /\ wow = "idle"
  /\ force = IdleForce
  /\ cloudOp = IdleCloudOp
  /\ calls = << >>
  /\ obsMicState \in MicStates
  /\ micPublished = "NotSent"
  /\ poller = [ started |-> FALSE, isWowRunning |-> FALSE ]
  /\ audioSources = NoConfig
  /\ wowEvent = "none"
  /\ videoQueue = << >>

\* refreshStatus() is called
RefreshStatusCall ==
  /\ published' = refreshStatus(reconfiguring, configValid, configMessage, handlers, obsState)
  /\ micPublished' = refreshMicStatus(reconfiguring, configValid, obsMicState)
  /\ UNCHANGED <<cfg, stages, active, queued, configValid, configMessage, reconfiguring,
                 retryPending, retryTime, orphanTimers, obsState, handlers, procs, crashes,
                 changes, cloudClient, owed, recovering, cloudVars, otherVars, calls, pollVars>>

SpecRefresh == InitRefresh /\ [][RefreshStatusCall]_vars

\* Some handler field refers to a handler that is overrunning / in an activity
AnyOverrunning == \E f \in Flavours : handlers[f].ref /\ handlers[f].overrunning
AnyActive == \E f \in Flavours : handlers[f].ref /\ handlers[f].activity

\* C16: for every combination of reconfiguring, configValid, anyOverrunning, anyActive
\* and an engine state out of Offline, Starting, Recording, Stopping, refreshStatus
\* publishes the first status that matches in the order Reconfiguring, InvalidConfig
\* (with the configuration message), Overrunning, Recording, ReadyToRecord (engine
\* Recording), WaitingForWoW (any other of the four engine states).
StatusPriority ==
  [][ RefreshStatusCall =>
        /\ published'.status =
             CASE reconfiguring -> "Reconfiguring"
               [] ~reconfiguring /\ ~configValid -> "InvalidConfig"
               [] ~reconfiguring /\ configValid /\ AnyOverrunning -> "Overrunning"
               [] ~reconfiguring /\ configValid /\ ~AnyOverrunning /\ AnyActive -> "Recording"
               [] ~reconfiguring /\ configValid /\ ~AnyOverrunning /\ ~AnyActive
                    /\ obsState = "Recording" -> "ReadyToRecord"
               [] ~reconfiguring /\ configValid /\ ~AnyOverrunning /\ ~AnyActive
                    /\ obsState \in {"Offline", "Starting", "Stopping"} -> "WaitingForWoW"
        /\ published'.msg = IF published'.status = "InvalidConfig" THEN configMessage ELSE "" ]_vars

\* C16 witness: reconfiguring and an overrunning source at once: Reconfiguring was published
StatusPriorityWitness ==
  /\ reconfiguring
  /\ AnyOverrunning
  /\ published.status = "Reconfiguring"

-----------------------------------------------------------------------------
(* Engine and activity-source events *)

\* The engine's recording state goes round Offline, Starting, Recording, Stopping
EngineSuccessor(obs) ==
  CASE obs = "Offline" -> "Starting"
    [] obs = "Starting" -> "Recording"
    [] obs = "Recording" -> "Stopping"
    [] obs = "Stopping" -> "Offline"

\* Variant of the engine's state change that nobody listens to
EngineStateChangeUnheard ==
  /\ MicrotasksDrained
  /\ obsState' = EngineSuccessor(obsState)
  /\ UNCHANGED <<cfg, stages, active, queued, configValid, configMessage, reconfiguring,
                 retryPending, retryTime, orphanTimers, handlers, published, micPublished,
                 procs, crashes, changes, cloudClient, owed, recovering, cloudVars, otherVars, calls,
                 pollVars>>

\* The engine changes its state and emits 'state-change': () => this.refreshStatus()
EngineStateChange ==
  /\ MicrotasksDrained
  /\ obsState' = EngineSuccessor(obsState)
  /\ published' = refreshStatus(reconfiguring, configValid, configMessage, handlers, obsState')
  /\ micPublished' = refreshMicStatus(reconfiguring, configValid, obsMicState)
  /\ UNCHANGED <<cfg, stages, active, queued, configValid, configMessage, reconfiguring,
                 retryPending, retryTime, orphanTimers, handlers, procs, crashes, changes,
                 cloudClient, owed, recovering, cloudVars, otherVars, calls, pollVars>>

\* A handler is idle, then in an activity, then overrunning (the activity is over but
\* the recording goes on for a while), then idle again
HandlerSuccessor(h) ==
  IF ~h.activity /\ ~h.overrunning THEN [h EXCEPT !.activity = TRUE]
  ELSE IF h.activity /\ ~h.overrunning THEN [h EXCEPT !.overrunning = TRUE]
  ELSE [h EXCEPT !.activity = FALSE, !.overrunning = FALSE]

\* A live log handler moves on and emits 'state-change': () => this.refreshStatus().
\* A destroyed handler has no listeners.
HandlerStateChange ==
  /\ MicrotasksDrained
  /\ \E f \in Flavours :
       /\ handlers[f].ref
       /\ ~handlers[f].destroyed
       /\ handlers' = [handlers EXCEPT ![f] = HandlerSuccessor(@)]
  /\ published' = refreshStatus(reconfiguring, configValid, configMessage, handlers', obsState)
  /\ micPublished' = refreshMicStatus(reconfiguring, configValid, obsMicState)
  /\ UNCHANGED <<cfg, stages, active, queued, configValid, configMessage, reconfiguring,
                 retryPending, retryTime, orphanTimers, obsState, procs, crashes, changes,
                 cloudClient, owed, recovering, cloudVars, otherVars, calls, pollVars>>

NextStatus ==
  \/ FirstManage
  \/ ValidateSettles
  \/ ConfigureSettles
  \/ ManageResumes
  \/ EngineStateChange
  \/ HandlerStateChange
  \/ RecoverRecorderFromCrash

\* The pipeline, started once and restarted by crash recovery, together with the
\* events that change what refreshStatus reads
SpecStatus == Init /\ [][NextStatus]_vars

\* The composite status the current flags call for
ExpectedStatus ==
  IF reconfiguring THEN [ status |-> "Reconfiguring", msg |-> "" ]
  ELSE IF ~configValid THEN [ status |-> "InvalidConfig", msg |-> configMessage ]
  ELSE IF AnyOverrunning THEN [ status |-> "Overrunning", msg |-> "" ]
  ELSE IF AnyActive THEN [ status |-> "Recording", msg |-> "" ]
  ELSE IF obsState = "Recording" THEN [ status |-> "ReadyToRecord", msg |-> "" ]
  ELSE [ status |-> "WaitingForWoW", msg |-> "" ]

\* In this step the pass of invocation c ends, valid or not
PassEnds(c) == InPass(c) /\ procs'[c].pc = "afterPass"

\* C17: after every step that handles an event (a pass begins or ends, a live source
\* changes state, the engine changes state, crash recovery) the published status is the
\* one the flags then call for; in particular, with a valid configuration and no
\* reconfiguration or overrun, a source that enters an activity yields Recording, and the
\* end of the last activity while the engine is Recording yields ReadyToRecord.
StatusNeverStale ==
  /\ [][ ( \/ EngineStateChange
           \/ HandlerStateChange
           \/ RecoverRecorderFromCrash
           \/ \E c \in Procs : PassStarts(c) \/ PassEnds(c) ) =>
         published' = ExpectedStatus' ]_vars
  /\ [][ (HandlerStateChange /\ ~reconfiguring /\ configValid /\ ~AnyOverrunning') =>
           /\ AnyActive' => published'.status = "Recording"
           /\ (AnyActive /\ ~AnyActive' /\ obsState = "Recording") =>
                published'.status = "ReadyToRecord" ]_vars

\* C17 witness: a live source is in an activity, nothing overruns, the configuration
\* is valid and no pass runs: Recording is the published status
StatusNeverStaleWitness ==
  /\ published.status = "Recording"
  /\ \E f \in Flavours : handlers[f].ref /\ ~handlers[f].destroyed /\ handlers[f].activity
  /\ ~AnyOverrunning
  /\ configValid
  /\ ~reconfiguring
  /\ \A c \in Procs : procs[c].pc = "idle"

\* The log of a pass that fetches, validates and applies every stage once, in order
RECURSIVE FullPassLog(_)
FullPassLog(n) ==
  IF n = 0 THEN << >>
  ELSE FullPassLog(n - 1) \o << <<"get", n>>, <<"validate", n>>, <<"configure", n>> >>

\* In this step a pass ends valid that began with the stages as they are after
\* construction (no engine fault so far, and the pass validated the first stage)
InitialPassEndsValid(c) ==
  /\ PassEnds(c)
  /\ procs'[c].outcome = "valid"
  /\ crashes' = 0
  /\ 1 \in LoggedStages(procs'[c].log, "validate")

\* C18 as stated: the pass from the initial state validates and applies every stage
\* once in order, every stage ends valid, configValid = TRUE and the status published at
\* the end of the pass is ReadyToRecord.
InitialPassReadyToRecord ==
  [][ \A c \in Procs :
        InitialPassEndsValid(c) =>
          /\ procs'[c].log = FullPassLog(NumStages)
          /\ \A i \in StageIds : stages'[i].valid
          /\ configValid'
          /\ published'.status = "ReadyToRecord" ]_vars

\* C18 amended: the pass from the initial state validates and applies every stage once
\* in order, every stage ends valid with the stored snapshot, configValid = TRUE, and
\* the status published at the end of the pass is ReadyToRecord only when the engine is
\* Recording and no source is active or overrunning; with the engine Offline, Starting
\* or Stopping it is WaitingForWoW, with a source active Recording, with a source
\* overrunning Overrunning.
InitialPassApplies ==
  [][ \A c \in Procs :
        InitialPassEndsValid(c) =>
          /\ procs'[c].log = FullPassLog(NumStages)
          /\ \A i \in StageIds : stages'[i].valid /\ stages'[i].current = StageGet(i, cfg)
          /\ configValid'
          /\ configMessage' = ""
          /\ ~reconfiguring'
          /\ published'.status =
               IF AnyOverrunning' THEN "Overrunning"
               ELSE IF AnyActive' THEN "Recording"
               ELSE IF obsState' = "Recording" THEN "ReadyToRecord"
               ELSE "WaitingForWoW" ]_vars

\* C18 witness: the first pass has applied every stage and ended valid while the
\* engine is not recording: WaitingForWoW is published
InitialPassAppliesWitness ==
  \E c \in Procs :
    /\ procs[c].pc = "afterPass"
    /\ procs[c].outcome = "valid"
    /\ procs[c].log = FullPassLog(NumStages)
    /\ crashes = 0
    /\ configValid
    /\ obsState # "Recording"
    /\ published.status = "WaitingForWoW"

-----------------------------------------------------------------------------
(* Crash recovery and invalidation *)

\* C19: handling an engine fault leaves every stage invalid and the queue empty and
\* starts a pass at once; and when the first pass of that invocation ends valid it has
\* fetched, validated and applied every stage once, in declaration order, none skipped.
CrashRecoveryReapplies ==
  /\ [][ RecoverRecorderFromCrash =>
           /\ \A i \in StageIds : ~stages'[i].valid
           /\ ~queued'
           /\ \E c \in Procs : PassStarts(c) /\ recovering' = c ]_vars
  /\ [][ \A c \in Procs :
           ( /\ recovering = c
             /\ procs[c].passNo = 1
             /\ PassEnds(c)
             /\ procs'[c].outcome = "valid" ) =>
           procs'[c].log = FullPassLog(NumStages) ]_vars

\* C20: a step that is not crash recovery clears valid only on a stage whose stored
\* snapshot differs by value from the stage's current snapshot, never on a stage
\* whose snapshot is unchanged; crash recovery clears valid on every stage.
InvalidationFrame ==
  [][ /\ (crashes' = crashes) =>
           \A i \in StageIds :
             (stages[i].valid /\ ~stages'[i].valid) =>
                ~isEqual(StageGet(i, cfg), stages[i].current)
      /\ (crashes' # crashes) => \A i \in StageIds : ~stages'[i].valid ]_vars

\* C20 witness: without any engine fault a pass has cleared valid on a stage whose
\* snapshot changed and validates it again, while an unchanged later stage is still valid
InvalidationFrameWitness ==
  \E c \in Procs : \E j \in StageIds :
    /\ crashes = 0
    /\ procs[c].pc = "validate"
    /\ ~stages[procs[c].i].valid
    /\ ~isEqual(procs[c].newConfig, stages[procs[c].i].current)
    /\ j > procs[c].i
    /\ stages[j].valid
    /\ isEqual(StageGet(j, cfg), stages[j].current)

-----------------------------------------------------------------------------
(* The periodic restart of the recorder *)

\* Variant of the eligibility test that does not look at the engine state
restartEligibleAnyEngineState(obs, hs) ==
  /\ ~inActivity(hs)
  /\ ~inOverrun(hs)

\* restartRecorder: whether it goes ahead, i.e. the engine is recording and no handler
\* field reports an activity or an overrun
restartEligible(obs, hs) ==
  /\ obs = "Recording"
  /\ ~inActivity(hs)
  /\ ~inOverrun(hs)

\* restartRecorder: the engine call that follows the one that resolved
restartNextCall(call) ==
  CASE call = "stop" -> "cleanup"
    [] call = "cleanup" -> "start"
    [] call = "start" -> "idle"

\* The engine state a resolved engine call leaves behind: stop() ends the session,
\* start() begins the buffer recording, any other call leaves the state alone
EngineAfter(call, obs) ==
  CASE call = "stop" -> "Offline"
    [] call = "start" -> "Recording"
    [] OTHER -> obs

\* An awaited engine call resolved and left the engine in state obs: the engine emits
\* 'state-change' when its state changed, and the listener calls refreshStatus()
EngineCallResolved(obs) ==
  /\ obsState' = obs
  /\ published' = IF obs # obsState
                  THEN refreshStatus(reconfiguring, configValid, configMessage, handlers, obs)
                  ELSE published
  /\ micPublished' = IF obs # obsState
                     THEN refreshMicStatus(reconfiguring, configValid, obsMicState)
                     ELSE micPublished

\* The 5 minute interval timer fires: restartRecorder() runs up to its first await
RestartRecorder ==
  /\ MicrotasksDrained
  /\ restart = "idle"
  /\ restart' = IF restartEligible(obsState, handlers) THEN "stop" ELSE "idle"
  /\ UNCHANGED <<cfg, stages, active, queued, configValid, configMessage, reconfiguring,
                 retryPending, retryTime, orphanTimers, obsState, handlers, published,
                 micPublished, procs, crashes, changes, cloudClient, owed, recovering,
                 cloudVars, wow, force, cloudOp, calls, obsMicState, pollVars>>

\* The engine call restartRecorder awaits settles: on success the next call is made, a
\* rejection ends restartRecorder
RestartResumes ==
  /\ MicrotasksDrained
  /\ restart # "idle"
  /\ \E result \in {"ok", "throw"} :
       IF result = "ok"
       THEN /\ EngineCallResolved(EngineAfter(restart, obsState))
            /\ restart' = restartNextCall(restart)
       ELSE /\ restart' = "idle"
            /\ UNCHANGED <<obsState, published, micPublished>>
  /\ UNCHANGED <<cfg, stages, active, queued, configValid, configMessage, reconfiguring,
                 retryPending, retryTime, orphanTimers, handlers, procs, crashes, changes,
                 cloudClient, owed, recovering, cloudVars, wow, force, cloudOp, calls,
                 obsMicState, pollVars>>

-----------------------------------------------------------------------------
(* The process-started and process-stopped handlers *)

\* handler.forceEndActivity() resolved: the activity of the handler is over
forceEndActivity(h) == [h EXCEPT !.activity = FALSE, !.overrunning = FALSE]

\* The awaited forceEndActivity() of handler field f resolved; a handler that is not
\* destroyed emits 'state-change' and the listener calls refreshStatus()
SourceForcedToEnd(f) ==
  /\ handlers' = [handlers EXCEPT ![f] = forceEndActivity(@)]
  /\ published' = IF ~handlers[f].destroyed /\ handlers' # handlers
                  THEN refreshStatus(reconfiguring, configValid, configMessage, handlers', obsState)
                  ELSE published
  /\ micPublished' = IF ~handlers[f].destroyed /\ handlers' # handlers
                     THEN refreshMicStatus(reconfiguring, configValid, obsMicState)
                     ELSE micPublished

\* onWowStopped: the call it awaits: forceEndActivity() of the first handler field, in
\* the order retail, classic, era, that refers to a handler in an activity, and
\* recorder.stop() when there is none
onWowStoppedCall(hs) ==
  IF hs["retail"].ref /\ hs["retail"].activity THEN "retail"
  ELSE IF hs["classic"].ref /\ hs["classic"].activity THEN "classic"
  ELSE IF hs["era"].ref /\ hs["era"].activity THEN "era"
  ELSE "stop"

\* The process watcher, once started, reports the game process as started when it was
\* not running and as stopped when it was
PollerEmits(event) ==
  /\ poller.started
  /\ poller.isWowRunning = (event = "wowProcessStop")

\* The poller emits 'wowProcessStart': onWowStarted() configures the audio sources from
\* a snapshot it fetches and awaits recorder.start()
OnWowStarted ==
  /\ MicrotasksDrained
  /\ wow = "idle"
  /\ PollerEmits("wowProcessStart")
  /\ poller' = [poller EXCEPT !.isWowRunning = TRUE]
  /\ audioSources' = getObsAudioConfig(cfg)
  /\ wowEvent' = "start"
  /\ wow' = "start"
  /\ UNCHANGED <<cfg, stages, active, queued, configValid, configMessage, reconfiguring,
                 retryPending, retryTime, orphanTimers, obsState, handlers, published,
                 micPublished, procs, crashes, changes, cloudClient, owed, recovering,
                 cloudVars, restart, force, cloudOp, calls, obsMicState, videoQueue>>

\* The poller emits 'wowProcessStop', or the power monitor 'suspend': onWowStopped()
OnWowStopped ==
  /\ MicrotasksDrained
  /\ wow = "idle"
  /\ \E event \in {"wowProcessStop", "suspend"} :
       /\ event = "wowProcessStop" => PollerEmits(event)
       /\ poller' = IF event = "wowProcessStop"
                    THEN [poller EXCEPT !.isWowRunning = FALSE]
                    ELSE poller
  /\ wowEvent' = "stop"
  /\ wow' = onWowStoppedCall(handlers)
  /\ UNCHANGED <<cfg, stages, active, queued, configValid, configMessage, reconfiguring,
                 retryPending, retryTime, orphanTimers, obsState, handlers, published,
                 micPublished, procs, crashes, changes, cloudClient, owed, recovering,
                 cloudVars, restart, force, cloudOp, calls, obsMicState, audioSources,
                 videoQueue>>

\* The power monitor emits 'resume': the listener starts the poller
PowerResume ==
  /\ MicrotasksDrained
  /\ poller' = [poller EXCEPT !.started = TRUE]
  /\ UNCHANGED <<cfg, stages, active, queued, configValid, configMessage, reconfiguring,
                 retryPending, retryTime, orphanTimers, obsState, handlers, published,
                 micPublished, procs, crashes, changes, cloudClient, owed, recovering,
                 cloudVars, otherVars, calls, audioSources, wowEvent, videoQueue>>

\* The call onWowStarted() or onWowStopped() awaits settles and the handler returns;
\* onWowStarted() catches a rejection, onWowStopped() rejects with it and otherwise
\* removes the audio sources
WowResumes ==
  /\ MicrotasksDrained
  /\ wow # "idle"
  /\ wow' = "idle"
  /\ \E result \in {"ok", "throw"} :
       IF result = "throw"
       THEN /\ wowEvent' = IF wow = "start" THEN "started" ELSE "rejected"
            /\ UNCHANGED <<obsState, handlers, published, micPublished, audioSources>>
       ELSE /\ IF wow \in Flavours
               THEN SourceForcedToEnd(wow) /\ obsState' = obsState
               ELSE EngineCallResolved(EngineAfter(wow, obsState)) /\ handlers' = handlers
            /\ audioSources' = IF wow = "start" THEN audioSources ELSE NoConfig
            /\ wowEvent' = IF wow = "start" THEN "started" ELSE "stopped"
  /\ UNCHANGED <<cfg, stages, active, queued, configValid, configMessage, reconfiguring,
                 retryPending, retryTime, orphanTimers, procs, crashes, changes,
                 cloudClient, owed, recovering, cloudVars, restart, force, cloudOp, calls,
                 obsMicState, poller, videoQueue>>

-----------------------------------------------------------------------------
(* The pipeline together with the handlers that drive the engine *)

NextEngine ==
  \/ FirstManage
  \/ ValidateSettles
  \/ ConfigureSettles
  \/ ManageResumes
  \/ HandlerStateChange
  \/ OnWowStarted
  \/ OnWowStopped
  \/ WowResumes
  \/ PowerResume
  \/ RestartRecorder
  \/ RestartResumes

\* The pipeline started once, the activity sources changing state, the poller reporting
\* the game process, the system resuming and the restart timer; the engine changes
\* state only through the calls made on it
SpecEngine == Init /\ [][NextEngine]_vars

\* C21: a restart tick makes no engine call unless the engine state is Recording and no
\* activity source reports activity or overrunning; when eligible it calls stop, then
\* cleanup, then start on the engine, in that order (a rejected call ends the restart).
RestartEligibility ==
  [][ /\ RestartRecorder =>
           IF obsState = "Recording" /\ ~AnyActive /\ ~AnyOverrunning
           THEN restart' = "stop"
           ELSE restart' = "idle" /\ obsState' = obsState
      /\ (restart = "idle" /\ restart' # "idle") => RestartRecorder
      /\ (restart = "stop" /\ restart' # "stop") => restart' \in {"cleanup", "idle"}
      /\ (restart = "cleanup" /\ restart' # "cleanup") => restart' \in {"start", "idle"}
      /\ (restart = "start" /\ restart' # "start") => restart' = "idle" ]_vars

\* C21 witness: the restart has stopped the engine, cleaned up and awaits start()
RestartEligibilityWitness ==
  /\ restart = "start"
  /\ obsState = "Offline"

\* C22: the periodic restart never interrupts a capture: restartRecorder makes none of
\* its engine calls (stop, cleanup, start) while an activity source reports activity or
\* overrunning, also when the activity began after the eligibility check.
RestartNeverInterrupts ==
  [][ (restart' # restart /\ restart' \in {"stop", "cleanup", "start"}) =>
        (~AnyActive /\ ~AnyOverrunning) ]_vars

\* An engine call made by onWowStarted(), onWowStopped() or restartRecorder() is in flight
HandlerEngineCallInFlight ==
  \/ restart # "idle"
  \/ wow \in {"start", "stop"}

\* C23: the engine is mutated only under the single-flight gate: no engine call of the
\* process-started handler, the process-stopped/suspend handler or the periodic restart
\* is in flight while a reconciliation pass that has begun to apply stages is suspended
\* at one of its awaits.
EngineUnderGate ==
  (\E c \in Procs : InPass(c) /\ LoggedStages(procs[c].log, "configure") # {}) =>
     ~HandlerEngineCallInFlight

-----------------------------------------------------------------------------
(* forceStop *)

\* The order in which forceStop and onWowStopped look at the handler fields
FlavourOrder == <<"retail", "classic", "era">>

\* The position of handler field f in that order
FlavourIndex(f) == CHOOSE k \in 1..Len(FlavourOrder) : FlavourOrder[k] = f

\* Variant of forceStop with the tests chained by `else if`, as in onWowStopped: it
\* returns after the first handler it told
forceStopFirstOnly(k, hs, told, visited) ==
  IF k > 1
  THEN [ pc |-> "idle", told |-> told, visited |-> visited, returned |-> "resolved" ]
  ELSE IF hs["retail"].ref /\ hs["retail"].activity
  THEN [ pc |-> "retail", told |-> {"retail"}, visited |-> {"retail"}, returned |-> "none" ]
  ELSE IF hs["classic"].ref /\ hs["classic"].activity
  THEN [ pc |-> "classic", told |-> {"classic"}, visited |-> {"retail", "classic"},
         returned |-> "none" ]
  ELSE IF hs["era"].ref /\ hs["era"].activity
  THEN [ pc |-> "era", told |-> {"era"}, visited |-> Flavours, returned |-> "none" ]
  ELSE [ pc |-> "idle", told |-> {}, visited |-> Flavours, returned |-> "resolved" ]

\* forceStop from its k-th `if` on, up to its next await or its return: a handler
\* field that refers to a handler with an activity is told to end it and awaited
RECURSIVE forceStopFrom(_, _, _, _)
forceStopFrom(k, hs, told, visited) ==
  IF k > Len(FlavourOrder)
  THEN [ pc |-> "idle", told |-> told, visited |-> visited, returned |-> "resolved" ]
  ELSE LET f == FlavourOrder[k] IN
       IF hs[f].ref /\ hs[f].activity
       THEN [ pc |-> f, told |-> told \cup {f}, visited |-> visited \cup {f},
              returned |-> "none" ]
       ELSE forceStopFrom(k + 1, hs, told, visited \cup {f})

\* The 'recorder' IPC message with 'stop' arrives: forceStop() runs up to its first await
ForceStop ==
  /\ MicrotasksDrained
  /\ force.pc = "idle"
  /\ force' = forceStopFrom(1, handlers, {}, {})
  /\ UNCHANGED <<cfg, stages, active, queued, configValid, configMessage, reconfiguring,
                 retryPending, retryTime, orphanTimers, obsState, handlers, published,
                 micPublished, procs, crashes, changes, cloudClient, owed, recovering,
                 cloudVars, restart, wow, cloudOp, calls, obsMicState, pollVars>>

\* The forceEndActivity() forceStop awaits settles: forceStop goes on with the next
\* handler field, or rejects when the call rejected
ForceStopResumes ==
  /\ MicrotasksDrained
  /\ force.pc \in Flavours
  /\ \E result \in {"ok", "throw"} :
       IF result = "ok"
       THEN /\ SourceForcedToEnd(force.pc)
            /\ force' = forceStopFrom(FlavourIndex(force.pc) + 1, handlers',
                                      force.told, force.visited)
       ELSE /\ force' = [force EXCEPT !.pc = "idle", !.returned = "rejected"]
            /\ UNCHANGED <<handlers, published, micPublished>>
  /\ UNCHANGED <<cfg, stages, active, queued, configValid, configMessage, reconfiguring,
                 retryPending, retryTime, orphanTimers, obsState, procs, crashes, changes,
                 cloudClient, owed, recovering, cloudVars, restart, wow, cloudOp, calls,
                 obsMicState, pollVars>>

NextForce ==
  \/ FirstManage
  \/ ValidateSettles
  \/ ConfigureSettles
  \/ ManageResumes
  \/ HandlerStateChange
  \/ ForceStop
  \/ ForceStopResumes

\* The pipeline started once, the activity sources changing state and the user
\* pressing the stop button
SpecForce == Init /\ [][NextForce]_vars

\* The handler fields forceStop has looked at before this step
VisitedBefore == IF force.pc = "idle" THEN {} ELSE force.visited

-----------------------------------------------------------------------------
(* The live set of activity sources *)

NextSources ==
  \/ ManageCall
  \/ ConfigChange
  \/ ValidateSettles
  \/ ConfigureSettles
  \/ ManageResumes
  \/ HandlerStateChange

\* The pipeline with configuration changes, and the activity sources changing state
SpecSources == Init /\ [][NextSources]_vars

\* The handler fields refreshStatus, restartRecorder and forceStop read
FeedingSources == { f \in Flavours : handlers[f].ref }

\* The sources a flavour snapshot selects
SelectedSources(config) ==
  { f \in Flavours :
      \/ f = "retail" /\ config.recordRetail
      \/ f = "classic" /\ config.recordClassic
      \/ f = "era" /\ config.recordEra }

\* In this step the flavour stage is applied
FlavourApplied ==
  \E c \in Procs : procs[c].pc = "configure" /\ procs[c].i = 4 /\ stages'[4].valid

\* C25: the set of sources that feed the status changes only when the flavour stage is
\* applied or on crash recovery; while the flavour stage is applied (valid) the sources
\* that feed anyActive and anyOverrunning are exactly those its snapshot selects; and a
\* destroyed source contributes no activity and no overrun to what refreshStatus,
\* restartRecorder and forceStop read.
LiveSetMatchesFlavour ==
  /\ [][ { f \in Flavours : handlers'[f].ref /\ ~handlers'[f].destroyed }
           # { f \in Flavours : handlers[f].ref /\ ~handlers[f].destroyed }
         => (FlavourApplied \/ RecoverRecorderFromCrash) ]_vars
  /\ [](stages[4].valid => FeedingSources = SelectedSources(stages[4].current))
  /\ [](\A f \in FeedingSources :
          handlers[f].destroyed => (~handlers[f].activity /\ ~handlers[f].overrunning))

-----------------------------------------------------------------------------
(* The end of a pass *)

\* C26: reconfiguring is true only during a pass: whenever no pass is executing, also
\* after a pass ended because stage.configure failed, reconfiguring is FALSE and the
\* published status is not Reconfiguring.
ReconfiguringOnlyInPass ==
  (\A c \in Procs : ~InPass(c)) =>
     (~reconfiguring /\ published.status # "Reconfiguring")

-----------------------------------------------------------------------------
(* Remote tag, protect and delete *)

\* The remote video operations the window can ask for
CloudOps == {"delete", "protect", "tag"}

\* Variant of the three methods without their try/catch: a failure reaches the caller
cloudOpRethrows(outcome) ==
  IF outcome = "ok" THEN "resolved" ELSE "rejected"

\* deleteVideoCloud / protectVideoCloud / tagVideoCloud: how the method's promise
\* settles when the remote call resolved ("ok"), rejected ("reject") or the assertion
\* that a cloud client exists failed ("assert"): the catch block logs and swallows
cloudOpReturns(outcome) ==
  IF outcome = "ok" THEN "resolved"
  ELSE "resolved"

\* A 'videoButton' or 'deleteVideo' IPC message for a cloud video arrives: the method
\* asserts there is a cloud client and awaits the remote call
CloudOpCall ==
  /\ MicrotasksDrained
  /\ cloudOp.pc = "idle"
  /\ \E op \in CloudOps :
       cloudOp' = IF cloudClient
                  THEN [ op |-> op, pc |-> "await", outcome |-> "none", returned |-> "none" ]
                  ELSE [ op |-> op, pc |-> "idle", outcome |-> "assert",
                         returned |-> cloudOpReturns("assert") ]
  /\ UNCHANGED <<cfg, stages, active, queued, configValid, configMessage, reconfiguring,
                 retryPending, retryTime, orphanTimers, obsState, handlers, published,
                 micPublished, procs, crashes, changes, cloudClient, owed, recovering,
                 cloudVars, restart, wow, force, calls, obsMicState, pollVars>>

\* The remote call settles and the method returns
CloudOpSettles ==
  /\ MicrotasksDrained
  /\ cloudOp.pc = "await"
  /\ \E outcome \in {"ok", "reject"} :
       cloudOp' = [ cloudOp EXCEPT !.pc = "idle", !.outcome = outcome,
                                   !.returned = cloudOpReturns(outcome) ]
  /\ UNCHANGED <<cfg, stages, active, queued, configValid, configMessage, reconfiguring,
                 retryPending, retryTime, orphanTimers, obsState, handlers, published,
                 micPublished, procs, crashes, changes, cloudClient, owed, recovering,
                 cloudVars, restart, wow, force, calls, obsMicState, pollVars>>

NextBestEffort ==
  \/ FirstManage
  \/ ValidateSettles
  \/ ConfigureSettles
  \/ ManageResumes
  \/ CloudOpCall
  \/ CloudOpSettles

\* The pipeline started once and the user tagging, protecting and deleting cloud videos
SpecBestEffort == Init /\ [][NextBestEffort]_vars

\* C27: a failure of a remote tag, protect or delete operation is swallowed: the method
\* resolves, whatever the outcome; the step changes none of configValid, the
\* configuration message, the stages and the gate, starts no pass and schedules no retry;
\* and once the method has returned the next operation can be started.
BestEffortSwallowed ==
  /\ [][ (CloudOpCall \/ CloudOpSettles) =>
           /\ (cloudOp'.pc = "idle") => (cloudOp'.returned = "resolved")
           /\ configValid' = configValid
           /\ configMessage' = configMessage
           /\ stages' = stages
           /\ active' = active
           /\ queued' = queued
           /\ procs' = procs
           /\ TimersPending' = TimersPending ]_vars
  /\ []((cloudOp.pc = "idle" /\ MicrotasksDrained) => ENABLED CloudOpCall)

\* C27 witness: a remote operation was rejected by the service and the method resolved
BestEffortSwallowedWitness ==
  /\ cloudOp.pc = "idle"
  /\ cloudOp.outcome = "reject"
  /\ cloudOp.returned = "resolved"

-----------------------------------------------------------------------------
(* configureFlavour on its own *)

\* Every combination of handler fields and engine state configureFlavour can find
InitFlavour ==
  /\ cfg \in { c \in InitialConfigs : c.cloudStorage }
  /\ stages = [i \in StageIds |-> [ valid |-> FALSE, current |-> StageGet(i, cfg) ]]
  /\ active = FALSE
  /\ queued = FALSE
  /\ configValid = FALSE
  /\ configMessage = ""
  /\ reconfiguring = TRUE
  /\ retryPending = FALSE
  /\ retryTime = 0
  /\ orphanTimers = 0
  /\ obsState \in EngineStates
  /\ handlers \in [Flavours -> HandlerStates]
  /\ published = [ status |-> "Reconfiguring", msg |-> "" ]
  /\ procs = [c \in Procs |-> IdleProc]
  /\ crashes = 0
  /\ changes = 0
  /\ cloudClient = FALSE
  /\ owed = "none"
  /\ recovering = 0
  /\ now = 0
  /\ remote = NoRemote
  /\ deadline = -1
  /\ restart = "idle"
  /\ wow = "idle"
  /\ force = IdleForce
  /\ cloudOp = IdleCloudOp
  /\ calls = << >>
  /\ obsMicState = "NONE"
  /\ micPublished = "NotSent"
  /\ poller = [ started |-> FALSE, isWowRunning |-> FALSE ]
  /\ audioSources = NoConfig
  /\ wowEvent = "none"
  /\ videoQueue = << >>

\* configureFlavour(config) runs to its end, the await of recorder.stop() included
ConfigureFlavourCall ==
  \E config \in FlavourConfigs :
    /\ calls' = configureFlavourCalls(config, handlers, obsState)
    /\ handlers' = configureFlavour(config, handlers)
    /\ obsState' = IF obsState = "Recording" THEN EngineAfter("stop", obsState) ELSE obsState
    /\ poller' = [poller EXCEPT !.started = TRUE]
    /\ UNCHANGED <<cfg, stages, active, queued, configValid, configMessage, reconfiguring,
                   retryPending, retryTime, orphanTimers, published, micPublished, procs,
                   crashes, changes, cloudClient, owed, recovering, cloudVars, restart, wow,
                   force, cloudOp, obsMicState, audioSources, wowEvent, videoQueue>>

SpecFlavour == InitFlavour /\ [][ConfigureFlavourCall]_vars

\* The positions in a sequence of calls at which operation op is applied
CallsOf(s, op) == { k \in 1..Len(s) : s[k][2] = op }

\* C28: configureFlavour stops the engine first, and only when its state is Recording;
\* then it unsubscribes and destroys every handler a field refers to; only then it
\* constructs the selected handlers, each followed at once by the wiring of its
\* 'state-change' signal: no handler is constructed before all old ones are destroyed.
FlavourApplyOrder ==
  [][ ConfigureFlavourCall =>
        LET s == calls' IN
        /\ (CallsOf(s, "stop") # {}) <=> (obsState = "Recording")
        /\ CallsOf(s, "stop") \subseteq {1}
        /\ \A f \in Flavours :
             /\ handlers[f].ref <=> \E k \in CallsOf(s, "destroy") : s[k][1] = f
             /\ (\E k \in CallsOf(s, "new") : s[k][1] = f) => handlers'[f] = NewHandler
             /\ (handlers[f].ref /\ handlers'[f] # NewHandler) => handlers'[f].destroyed
        /\ \A k \in CallsOf(s, "destroy") :
             k > 1 /\ s[k - 1] = <<s[k][1], "removeAllListeners">>
        /\ \A j \in CallsOf(s, "destroy") : \A k \in CallsOf(s, "new") : j < k
        /\ \A j \in CallsOf(s, "stop") : \A k \in CallsOf(s, "destroy") : j < k
        /\ \A k \in CallsOf(s, "new") :
             k < Len(s) /\ s[k + 1] = <<s[k][1], "on state-change">>
        /\ \A f \in Flavours :
             handlers'[f] = NewHandler => \E k \in CallsOf(s, "new") : s[k][1] = f ]_vars

\* C28 witness: with the engine recording and two old handlers, configureFlavour stopped
\* the engine, destroyed both and built two handlers
FlavourApplyOrderWitness ==
  /\ Len(calls) = 11
  /\ calls[1] = <<"recorder", "stop">>
  /\ Cardinality(CallsOf(calls, "destroy")) = 2
  /\ Cardinality(CallsOf(calls, "new")) = 2
  /\ obsState = "Offline"

-----------------------------------------------------------------------------
(* The mic status *)

\* C29: every call of refreshStatus publishes the mic status of the engine alongside the
\* composite status, whichever composite status is selected, and the composite status is
\* the one the flags call for whatever the mic status is.
MicAlongside ==
  [][ RefreshStatusCall =>
        /\ micPublished' = obsMicState
        /\ published' = ExpectedStatus' ]_vars

\* C30: the gate is always released: once every manage() invocation that passed the gate
\* has returned or failed, also with an error thrown by stage.configure, active is FALSE,
\* so that the next manage() call starts a pass instead of only setting queued.
GateAlwaysReleased ==
  (\A c \in Procs : procs[c].pc = "idle") => ~active

-----------------------------------------------------------------------------
(* Passes and the Reconfiguring status *)

\* C31: while any pass is executing, reconfiguring is TRUE and the status last
\* published is Reconfiguring, engine faults and the recovery passes they start included.
PassShowsReconfiguring ==
  (PassesExecuting # {}) => (reconfiguring /\ published.status = "Reconfiguring")

\* C32: configValid = TRUE together with reconfiguring = FALSE implies that every stage
\* is valid, and a status other than Reconfiguring and InvalidConfig is never the
\* published one while some stage is invalid.
ValidMeansAllStagesValid ==
  /\ (configValid /\ ~reconfiguring) => \A i \in StageIds : stages[i].valid
  /\ (published.status \notin {"None", "Reconfiguring", "InvalidConfig"}) =>
        \A i \in StageIds : stages[i].valid

-----------------------------------------------------------------------------
(* The process watcher, the engine and the audio sources *)

\* In this step a handler calls recorder.start(): onWowStarted, or restartRecorder
\* after its cleanup() resolved
EngineStartCalled ==
  \/ wow # "start" /\ wow' = "start"
  \/ restart = "cleanup" /\ restart' = "start"

\* C33: the engine is never started while the configuration is invalid: onWowStarted
\* and restartRecorder call recorder.start() only in states where configValid is TRUE
\* and no pass is in progress.
StartOnlyWhenValid ==
  [][ EngineStartCalled => (configValid /\ PassesExecuting = {}) ]_vars

\* Every combination of activity sources, engine state and audio sources the
\* process-stopped handler can find once a pass has ended with a valid configuration
InitStopped ==
  /\ cfg \in { c \in InitialConfigs : c.cloudStorage }
  /\ stages = [i \in StageIds |-> [ valid |-> TRUE, current |-> StageGet(i, cfg) ]]
  /\ active = FALSE
  /\ queued = FALSE
  /\ configValid = TRUE
  /\ configMessage = ""
  /\ reconfiguring = FALSE
  /\ retryPending = FALSE
  /\ retryTime = 0
  /\ orphanTimers = 0
  /\ obsState \in EngineStates
  /\ handlers \in [Flavours -> HandlerStates]
  /\ published = refreshStatus(FALSE, TRUE, "", handlers, obsState)
  /\ procs = [c \in Procs |-> IdleProc]
  /\ crashes = 0
  /\ changes = 0
  /\ cloudClient = TRUE
  /\ owed = "none"
  /\ recovering = 0
  /\ now = 0
  /\ remote = NoRemote
  /\ deadline = -1
  /\ restart = "idle"
  /\ wow = "idle"
  /\ force = IdleForce
  /\ cloudOp = IdleCloudOp
  /\ calls = << >>
  /\ obsMicState = "NONE"
  /\ micPublished = "NONE"
  /\ poller \in { [ started |-> TRUE, isWowRunning |-> r ] : r \in BOOLEAN }
  /\ audioSources \in { NoConfig, getObsAudioConfig(cfg) }
  /\ wowEvent = IF poller.isWowRunning THEN "started" ELSE "none"
  /\ videoQueue = << >>

\* onWowStopped() alone, from each of these states
SpecStopped == InitStopped /\ [][OnWowStopped \/ WowResumes]_vars

\* C34: onWowStopped() stops the engine exactly when no source is in an activity when
\* the event arrives, and once it has returned no activity source is in an activity and
\* the audio sources are removed, whichever sources were in an activity.
StoppedEndsEveryActivity ==
  [][ /\ OnWowStopped => ((wow' = "stop") <=> ~AnyActive)
      /\ (wowEvent = "stop" /\ wowEvent' = "stopped") =>
            /\ ~AnyActive'
            /\ audioSources' = NoConfig ]_vars

\* C35: once onWowStopped() has returned, and until the next process-started event,
\* restartRecorder does not call recorder.start(): a restart that overlaps the
\* process-stopped handler does not start the engine again after the handler stopped it.
NoStartAfterStopped ==
  [][ (restart = "cleanup" /\ restart' = "start") => wowEvent # "stopped" ]_vars

\* C36: the audio stage's apply configures the audio sources only if the poller reports
\* the game process running and the stage is marked valid either way, onWowStarted()
\* configures them from the audio snapshot it fetches, and onWowStopped() always
\* removes them.
AudioOnlyWhileRunning ==
  [][ /\ \A c \in Procs :
           (procs[c].pc = "configure" /\ procs[c].i = 3 /\ procs'[c] # procs[c]) =>
              /\ stages'[3].valid
              /\ audioSources' = IF poller.isWowRunning THEN procs[c].newConfig
                                 ELSE audioSources
      /\ OnWowStarted => audioSources' = getObsAudioConfig(cfg)
      /\ (wowEvent = "stop" /\ wowEvent' # "stop") => audioSources' = NoConfig ]_vars

-----------------------------------------------------------------------------
(* The order of the checks of the base-stage validation *)

\* Every combination of storage path, cloud storage switch and cloud account settings
BaseConfigs ==
  { [ storagePath |-> sp, cloudStorage |-> cs, obsWindowName |-> "WoW",
      speakerVolume |-> 1, recordRetail |-> TRUE, chatOverlayOwnImage |-> FALSE,
      cloudAccountName |-> a, cloudAccountPassword |-> pw, cloudGuildName |-> g,
      cloudUpload |-> TRUE ] :
    sp \in {"", "D:/wr"}, cs \in BOOLEAN,
    a \in {"", "user"}, pw \in {"", "secret"}, g \in {"", "guild"} }

NextBase ==
  \/ FirstManage
  \/ LocalValidationFails
  \/ CloudStorageOff
  \/ CloudNameMissing
  \/ CheckAuthStarts
  \/ Tick
  \/ CheckAuthSettles
  \/ BombExplodes

\* The base-stage validation of the first pass, check by check, for every base
\* snapshot and every behaviour of the cloud service
SpecBase == InitFrom(BaseConfigs, CheckAuthOutcomes) /\ [][NextBase]_vars

-----------------------------------------------------------------------------
(* The download and upload buttons *)

MaxQueued == 2

\* The 'videoButton' actions that hand a request to the video process queue
QueueActions == {"download", "upload"}

\* Variant of the listener that queues the request whatever configValid is
videoButtonIgnoringValidity(action, valid, queue) ==
  Append(queue, action)

\* The 'videoButton' listener for a download or upload request: the video process
\* queue after it
videoButton(action, valid, queue) ==
  IF ~valid THEN queue ELSE Append(queue, action)

\* The renderer sends 'videoButton' with action download or upload
VideoButton ==
  /\ MicrotasksDrained
  /\ Len(videoQueue) < MaxQueued
  /\ \E action \in QueueActions :
       videoQueue' = videoButton(action, configValid, videoQueue)
  /\ UNCHANGED <<cfg, stages, active, queued, configValid, configMessage, reconfiguring,
                 retryPending, retryTime, orphanTimers, obsState, handlers, published,
                 micPublished, procs, crashes, changes, cloudClient, owed, recovering,
                 cloudVars, otherVars, calls, poller, audioSources, wowEvent>>

NextVideo ==
  \/ NextNoFault
  \/ VideoButton

\* The pipeline without engine faults, and the download and upload buttons
SpecVideo == Init /\ [][NextVideo]_vars

\* C38: a download or upload request is handed to the video process queue only in
\* states where configValid is TRUE; when configValid is FALSE the request is dropped
\* and the queue is unchanged.
QueueOnlyWhenValid ==
  [][ /\ VideoButton =>
           IF configValid
           THEN \E action \in QueueActions : videoQueue' = Append(videoQueue, action)
           ELSE videoQueue' = videoQueue
      /\ (videoQueue' # videoQueue) => configValid ]_vars

\* C38 witness: a request was queued while the configuration was valid, and the
\* configuration has since become invalid
QueueOnlyWhenValidWitness ==
  /\ Len(videoQueue) = 1
  /\ ~configValid
  /\ published.status = "InvalidConfig"

====
